---- MODULE Spec2Model ----
(***************************************************************************)
(* Mintle: the hourly word lifecycle (wordManager.ts, firestoreService.ts, *)
(* encryption.ts, dictionary.ts) and the guess evaluator                   *)
(* (wordEvaluation.ts).                                                    *)
(*                                                                         *)
(* Strings are sequences of character codes (JavaScript charCodeAt         *)
(* values), so that toLowerCase, the Caesar shift, btoa/atob and the       *)
(* 32-bit string hash are computed the way the code computes them.         *)
(***************************************************************************)
EXTENDS Integers, Sequences, FiniteSets, TLC

(***************************************************************************)
(* Bounds of the model.                                                    *)
(***************************************************************************)
\* number of client processes (browsers) sharing the store
NumClients == 2
\* number of createdAt instants the clock can advance through
MaxClock == 1
\* number of store operations that may suffer failures, over a whole behaviour
MaxFaults == 1
\* number of reads that may miss a record that exists (eventual consistency)
MaxStale == 1
\* length of the solution prefix of the word list (2000 in dictionary.ts:8)
SolutionPrefix == 4
\* number of overlapping loadDictionary callers in one process
NumCallers == 2
\* number of distinct letters the evaluator's inputs are drawn from
EvalLetters == 2
\* number of feedback rows passed to getKeyboardLetterStatus
MaxRows == 3
\* number of guesses passed to suggestHintWord
MaxHintGuesses == 2
\* number of letters, each in both cases, the words to encrypt are made of
CipherLetterCount == 2
\* number of dictionary queries made beside the loadDictionary calls
MaxQueries == 2
\* number of initializeGame runs started after the one of the mount
MaxInits == 1

(***************************************************************************)
(* Characters and strings                                                  *)
(***************************************************************************)
LowerChars == <<"a","b","c","d","e","f","g","h","i","j","k","l","m",
                "n","o","p","q","r","s","t","u","v","w","x","y","z">>
UpperChars == <<"A","B","C","D","E","F","G","H","I","J","K","L","M",
                "N","O","P","Q","R","S","T","U","V","W","X","Y","Z">>
DigitChars == <<"0","1","2","3","4","5","6","7","8","9">>

\* charCodeAt of a one-character literal
Ord(ch) ==
  IF \E i \in 1..26 : LowerChars[i] = ch
    THEN 96 + (CHOOSE i \in 1..26 : LowerChars[i] = ch)
  ELSE IF \E i \in 1..26 : UpperChars[i] = ch
    THEN 64 + (CHOOSE i \in 1..26 : UpperChars[i] = ch)
  ELSE IF \E i \in 1..10 : DigitChars[i] = ch
    THEN 47 + (CHOOSE i \in 1..10 : DigitChars[i] = ch)
  ELSE IF ch = "+" THEN 43
  ELSE IF ch = "/" THEN 47
  ELSE IF ch = "=" THEN 61
  ELSE IF ch = "-" THEN 45
  ELSE IF ch = "!" THEN 33
  ELSE 32

\* a string literal, written as a tuple of one-character strings
Str(lit) == [i \in 1..Len(lit) |-> Ord(lit[i])]

IsLowerCode(c) == c >= 97 /\ c <= 122
IsUpperCode(c) == c >= 65 /\ c <= 90
IsDigitCode(c) == c >= 48 /\ c <= 57

\* String.prototype.toLowerCase / toUpperCase on ASCII text
toLowerCase(s) == [i \in 1..Len(s) |-> IF IsUpperCode(s[i]) THEN s[i] + 32 ELSE s[i]]
toUpperCase(s) == [i \in 1..Len(s) |-> IF IsLowerCode(s[i]) THEN s[i] - 32 ELSE s[i]]

RECURSIVE SumCodes(_)
SumCodes(s) == IF s = <<>> THEN 0 ELSE s[1] + SumCodes(Tail(s))

(***************************************************************************)
(* encryption.ts                                                           *)
(***************************************************************************)
\* generateEncryptionKey: the sum of the hour id's character codes, mod 26
generateEncryptionKey(hourId) == SumCodes(hourId) % 26

\* a rotation that does not wrap around at the end of the alphabet
ShiftCharNoWrap(c, shift) ==
  IF IsLowerCode(c) \/ IsUpperCode(c) THEN c + shift ELSE c

ShiftChar(c, shift) ==
  IF IsLowerCode(c) THEN ((c - 97 + shift) % 26) + 97
  ELSE IF IsUpperCode(c) THEN ((c - 65 + shift) % 26) + 65
  ELSE c

\* caesarCipher: letters are rotated within their case, the rest is kept
caesarCipher(text, shift) == [i \in 1..Len(text) |-> ShiftChar(text[i], shift)]

\* a decipher that shifts forward again instead of back
caesarDecipherForward(text, shift) == caesarCipher(text, shift)

\* caesarDecipher: the cipher with the complementary shift
caesarDecipher(text, shift) == caesarCipher(text, 26 - shift)

\* the base64 alphabet A-Z a-z 0-9 + /
B64Char(i) ==
  IF i < 26 THEN 65 + i
  ELSE IF i < 52 THEN 97 + (i - 26)
  ELSE IF i < 62 THEN 48 + (i - 52)
  ELSE IF i = 62 THEN 43
  ELSE 47

IsB64Code(c) == IsUpperCode(c) \/ IsLowerCode(c) \/ IsDigitCode(c) \/ c = 43 \/ c = 47

B64Index(c) ==
  IF IsUpperCode(c) THEN c - 65
  ELSE IF IsLowerCode(c) THEN c - 97 + 26
  ELSE IF IsDigitCode(c) THEN c - 48 + 52
  ELSE IF c = 43 THEN 62
  ELSE 63

\* window.btoa on a string of bytes
RECURSIVE btoa(_)
btoa(s) ==
  IF Len(s) = 0 THEN <<>>
  ELSE IF Len(s) = 1 THEN
    <<B64Char(s[1] \div 4), B64Char((s[1] % 4) * 16), 61, 61>>
  ELSE IF Len(s) = 2 THEN
    <<B64Char(s[1] \div 4), B64Char((s[1] % 4) * 16 + (s[2] \div 16)),
      B64Char((s[2] % 16) * 4), 61>>
  ELSE
    <<B64Char(s[1] \div 4), B64Char((s[1] % 4) * 16 + (s[2] \div 16)),
      B64Char((s[2] % 16) * 4 + (s[3] \div 64)), B64Char(s[3] % 64)>>
    \o btoa(SubSeq(s, 4, Len(s)))

IsAsciiWhitespace(c) == c \in {9, 10, 12, 13, 32}
NotAsciiWhitespace(c) == ~IsAsciiWhitespace(c)

\* the data characters of a base64 string: whitespace removed, then, when the
\* length is a multiple of 4, one or two trailing "=" removed
B64Data(s) ==
  LET t == SelectSeq(s, NotAsciiWhitespace)
      n == Len(t)
  IN IF n > 0 /\ n % 4 = 0
       THEN IF t[n] = 61 /\ t[n - 1] = 61 THEN SubSeq(t, 1, n - 2)
            ELSE IF t[n] = 61 THEN SubSeq(t, 1, n - 1)
            ELSE t
       ELSE t

\* the bytes of a sequence of base64 data characters; left-over bits are dropped
RECURSIVE B64Bytes(_)
B64Bytes(d) ==
  IF Len(d) < 2 THEN <<>>
  ELSE LET i1 == B64Index(d[1])
           i2 == B64Index(d[2])
           b1 == i1 * 4 + (i2 \div 16)
       IN IF Len(d) = 2 THEN <<b1>>
          ELSE LET i3 == B64Index(d[3])
                   b2 == (i2 % 16) * 16 + (i3 \div 4)
               IN IF Len(d) = 3 THEN <<b1, b2>>
                  ELSE <<b1, b2, (i3 % 4) * 64 + B64Index(d[4])>>
                       \o B64Bytes(SubSeq(d, 5, Len(d)))

\* window.atob: fails on a data length of 1 mod 4 and on any other character
atob(s) ==
  LET d == B64Data(s)
  IN IF Len(d) % 4 = 1 \/ \E i \in 1..Len(d) : ~IsB64Code(d[i])
       THEN [ok |-> FALSE, text |-> <<>>]
       ELSE [ok |-> TRUE, text |-> B64Bytes(d)]

\* encryptWord: lower-case, shift by the hour's key, base64
encryptWord(word, hourId) ==
  btoa(caesarCipher(toLowerCase(word), generateEncryptionKey(hourId)))

\* decryptWord: base64-decode and shift back; any failure is rethrown as Error
decryptWord(encryptedWord, hourId) ==
  LET decoded == atob(encryptedWord)
  IN IF decoded.ok
       THEN [ok |-> TRUE,
             text |-> caesarDecipher(decoded.text, generateEncryptionKey(hourId))]
       ELSE [ok |-> FALSE, text |-> <<>>]

(***************************************************************************)
(* 32-bit integers, kept as two 16-bit halves so that no product leaves    *)
(* the range of TLC's integers.                                            *)
(***************************************************************************)
Half == 65536

\* one step of the string hash: ((hash << 5) - hash) + char, then hash & hash
HashStep(h, c) ==
  LET lo == h.lo * 31 + c
      hi == h.hi * 31 + (lo \div Half)
  IN [hi |-> hi % Half, lo |-> lo % Half]

RECURSIVE HashFrom(_, _)
HashFrom(h, s) == IF s = <<>> THEN h ELSE HashFrom(HashStep(h, s[1]), Tail(s))

\* the hash as the signed 32-bit number JavaScript holds
Signed32(h) == IF h.hi >= 32768 THEN (h.hi - Half) * Half + h.lo ELSE h.hi * Half + h.lo

\* simpleStringHash (dictionary.ts)
simpleStringHash(str) == Signed32(HashFrom([hi |-> 0, lo |-> 0], str))

\* Math.abs(hash) % n
AbsMod(hash, n) == IF hash < 0 THEN (n - (hash % n)) % n ELSE hash % n

\* Math.abs of a 32-bit hash, again as halves (2^31 does not fit a signed word)
AbsHalves(h) ==
  IF h.hi < 32768 THEN h
  ELSE IF h.lo = 0 THEN [hi |-> Half - h.hi, lo |-> 0]
  ELSE [hi |-> Half - 1 - h.hi, lo |-> Half - h.lo]

Digit36(d) == IF d < 10 THEN 48 + d ELSE 97 + (d - 10)

\* Number.prototype.toString(36) of a non-negative number given as halves
RECURSIVE ToString36(_)
ToString36(m) ==
  LET t == (m.hi % 36) * Half + m.lo
      q == [hi |-> m.hi \div 36, lo |-> t \div 36]
      d == <<Digit36(t % 36)>>
  IN IF q.hi = 0 /\ q.lo = 0 THEN d ELSE ToString36(q) \o d

\* generateWordHash: the hash of lowercase(word) + hourId, in radix 36
generateWordHash(word, hourId) ==
  ToString36(AbsHalves(HashFrom([hi |-> 0, lo |-> 0], toLowerCase(word) \o hourId)))


(***************************************************************************)
(* wordEvaluation.ts                                                       *)
(***************************************************************************)
CountIn(s, c) == Cardinality({i \in 1..Len(s) : s[i] = c})

\* secretLetterCounts after the counting loop; a letter not in the map reads 0
LetterCounts(secretLower, letters) == [c \in letters |-> CountIn(secretLower, c)]

NoFeedback == [letter |-> 0, status |-> "unset"]

\* first pass: exact matches are marked correct and taken from the pool
RECURSIVE FirstPass(_, _, _, _, _)
FirstPass(i, guess, secretLower, fb, pool) ==
  IF i > 5 THEN [fb |-> fb, pool |-> pool]
  ELSE LET guessLetter == toLowerCase(guess)[i]
       IN IF guessLetter = secretLower[i]
            THEN FirstPass(i + 1, guess, secretLower,
                           [fb EXCEPT ![i] = [letter |-> guess[i], status |-> "correct"]],
                           [pool EXCEPT ![guessLetter] = @ - 1])
            ELSE FirstPass(i + 1, guess, secretLower, fb, pool)

\* a second pass that marks a letter present whenever the secret holds it,
\* without consuming the pool
RECURSIVE SecondPassNoPool(_, _, _, _)
SecondPassNoPool(i, guess, fb, pool) ==
  IF i > 5 THEN fb
  ELSE IF fb[i].status # "unset" THEN SecondPassNoPool(i + 1, guess, fb, pool)
  ELSE LET guessLetter == toLowerCase(guess)[i]
       IN SecondPassNoPool(i + 1, guess,
            [fb EXCEPT ![i] = [letter |-> guess[i],
                               status |-> IF pool[guessLetter] > 0 THEN "present"
                                          ELSE "absent"]],
            pool)

\* a second pass that scans from the last position to the first
RECURSIVE SecondPassRightToLeft(_, _, _, _)
SecondPassRightToLeft(i, guess, fb, pool) ==
  IF i > 5 THEN fb
  ELSE IF fb[6 - i].status # "unset" THEN SecondPassRightToLeft(i + 1, guess, fb, pool)
  ELSE LET guessLetter == toLowerCase(guess)[6 - i]
           remainingCount == pool[guessLetter]
       IN IF remainingCount > 0
            THEN SecondPassRightToLeft(i + 1, guess,
                   [fb EXCEPT ![6 - i] = [letter |-> guess[6 - i], status |-> "present"]],
                   [pool EXCEPT ![guessLetter] = remainingCount - 1])
            ELSE SecondPassRightToLeft(i + 1, guess,
                   [fb EXCEPT ![6 - i] = [letter |-> guess[6 - i], status |-> "absent"]],
                   pool)

\* second pass: left to right, present while the pool still holds the letter
RECURSIVE SecondPass(_, _, _, _)
SecondPass(i, guess, fb, pool) ==
  IF i > 5 THEN fb
  ELSE IF fb[i].status # "unset" THEN SecondPass(i + 1, guess, fb, pool)
  ELSE LET guessLetter == toLowerCase(guess)[i]
           remainingCount == pool[guessLetter]
       IN IF remainingCount > 0
            THEN SecondPass(i + 1, guess,
                            [fb EXCEPT ![i] = [letter |-> guess[i], status |-> "present"]],
                            [pool EXCEPT ![guessLetter] = remainingCount - 1])
            ELSE SecondPass(i + 1, guess,
                            [fb EXCEPT ![i] = [letter |-> guess[i], status |-> "absent"]],
                            pool)

\* an evaluation that compares the letters as written, case included
evaluateGuessCaseSensitive(guess, secret) ==
  IF Len(guess) # 5 \/ Len(secret) # 5
    THEN [ok |-> FALSE, feedback |-> <<>>]
    ELSE LET letters == {guess[i] : i \in 1..5} \cup {secret[i] : i \in 1..5}
                          \cup {toLowerCase(guess)[i] : i \in 1..5}
             first == FirstPass(1, guess, secret, [i \in 1..5 |-> NoFeedback],
                                LetterCounts(secret, letters))
         IN [ok |-> TRUE, feedback |-> SecondPass(1, guess, first.fb, first.pool)]

\* evaluateGuess: an error for a wrong length, else the five feedback entries
evaluateGuess(guess, secret) ==
  IF Len(guess) # 5 \/ Len(secret) # 5
    THEN [ok |-> FALSE, feedback |-> <<>>]
    ELSE LET guessLower == toLowerCase(guess)
             secretLower == toLowerCase(secret)
             letters == {guessLower[i] : i \in 1..5} \cup {secretLower[i] : i \in 1..5}
             first == FirstPass(1, guess, secretLower, [i \in 1..5 |-> NoFeedback],
                                LetterCounts(secretLower, letters))
         IN [ok |-> TRUE, feedback |-> SecondPass(1, guess, first.fb, first.pool)]

\* isCorrectGuess
isCorrectGuess(guess, secret) == toLowerCase(guess) = toLowerCase(secret)

\* a Map from letters to statuses; "none" stands for a key that is not set
EmptyLetterMap == [c \in 97..122 |-> "none"]

\* an inner loop body in which the row processed last decides
KeyStepLastWins(letterStatus, letterFeedback) ==
  [letterStatus EXCEPT ![toLowerCase(<<letterFeedback.letter>>)[1]] =
     letterFeedback.status]

\* getKeyboardLetterStatus: the body of the inner loop
KeyStep(letterStatus, letterFeedback) ==
  LET letter == toLowerCase(<<letterFeedback.letter>>)[1]
      currentStatus == letterStatus[letter]
  IN IF letterFeedback.status = "correct"
       THEN [letterStatus EXCEPT ![letter] = "correct"]
     ELSE IF letterFeedback.status = "present" /\ currentStatus # "correct"
       THEN [letterStatus EXCEPT ![letter] = "present"]
     ELSE IF letterFeedback.status = "absent" /\ currentStatus = "none"
       THEN [letterStatus EXCEPT ![letter] = "absent"]
     ELSE letterStatus

\* the inner loop over one feedback row, from entry i on
RECURSIVE KeyRow(_, _, _)
KeyRow(letterStatus, feedback, i) ==
  IF i > Len(feedback) THEN letterStatus
  ELSE KeyRow(KeyStep(letterStatus, feedback[i]), feedback, i + 1)

\* the outer loop over the rows, from row g on
RECURSIVE KeyRows(_, _, _)
KeyRows(letterStatus, allFeedback, g) ==
  IF g > Len(allFeedback) THEN letterStatus
  ELSE KeyRows(KeyRow(letterStatus, allFeedback[g], 1), allFeedback, g + 1)

\* getKeyboardLetterStatus
getKeyboardLetterStatus(allFeedback) == KeyRows(EmptyLetterMap, allFeedback, 1)


(***************************************************************************)
(* dictionary.ts                                                           *)
(***************************************************************************)
\* words.json, most common words first (a sample of the list)
WordsJson ==
  << Str(<<"a","b","o","u","t">>), Str(<<"n","a","c","r","e">>),
     Str(<<"h","e","l","l","o">>), Str(<<"c","r","a","n","e">>),
     Str(<<"s","p","e","e","d">>), Str(<<"a","l","l","e","y">>) >>

\* ALL_WORDS at module load: the list in upper case
ALL_WORDS == [i \in 1..Len(WordsJson) |-> toUpperCase(WordsJson[i])]

\* SOLUTION_WORDS: a copy of the first words of ALL_WORDS, taken at module load
SOLUTION_WORDS ==
  SubSeq(ALL_WORDS, 1, IF SolutionPrefix < Len(ALL_WORDS) THEN SolutionPrefix
                       ELSE Len(ALL_WORDS))

\* new Set(array): the distinct members in insertion order
RECURSIVE SetInOrder(_, _)
SetInOrder(arr, acc) ==
  IF arr = <<>> THEN acc
  ELSE SetInOrder(Tail(arr),
                  IF \E i \in 1..Len(acc) : acc[i] = Head(arr) THEN acc
                  ELSE Append(acc, Head(arr)))

LowerAll(arr) == [i \in 1..Len(arr) |-> toLowerCase(arr[i])]

\* a dictionary whose solutions are the first words of the array passed in,
\* in the order the array has at the call
NewDictionaryFromAllowed(id, allowedWords) ==
  [id |-> id,
   solutions |-> SetInOrder(LowerAll(SubSeq(allowedWords, 1,
                     IF SolutionPrefix < Len(allowedWords) THEN SolutionPrefix
                     ELSE Len(allowedWords))), <<>>),
   allowed |-> SetInOrder(LowerAll(allowedWords), <<>>),
   version |-> "v1"]

\* a dictionary whose solutions are taken as SOLUTION_WORDS holds them
NewDictionaryRawSolutions(id, allowedWords) ==
  [id |-> id,
   solutions |-> SetInOrder(SOLUTION_WORDS, <<>>),
   allowed |-> SetInOrder(LowerAll(allowedWords), <<>>),
   version |-> "v1"]

\* the object loadDictionary builds from the arrays as they are at the call
NewDictionary(id, allowedWords) ==
  [id |-> id,
   solutions |-> SetInOrder(LowerAll(SOLUTION_WORDS), <<>>),
   allowed |-> SetInOrder(LowerAll(allowedWords), <<>>),
   version |-> "v1"]

\* getDeterministicSolutionWord on a loaded dictionary
getDeterministicSolutionWord(dict, seed) ==
  LET solutionsArray == dict.solutions
      index == AbsMod(simpleStringHash(seed), Len(solutionsArray))
  IN toUpperCase(solutionsArray[index + 1])

\* Set.prototype.has on a set kept in insertion order
SetHas(set, word) == \E k \in 1..Len(set) : set[k] = word

\* the outcome of a query: a thrown Error, a boolean or a word
QueryThrows == [ok |-> FALSE, bool |-> FALSE, word |-> <<>>]
QueryBool(b) == [ok |-> TRUE, bool |-> b, word |-> <<>>]
QueryWord(w) == [ok |-> TRUE, bool |-> FALSE, word |-> w]

\* the queries without their check of dictionaryInstance
DictionaryQueryUnchecked(instance, fn, arg) ==
  IF fn = "isValidGuess"
    THEN {QueryBool(SetHas(instance.dict.allowed, toLowerCase(arg)))}
  ELSE IF fn = "isValidSolution"
    THEN {QueryBool(SetHas(instance.dict.solutions, toLowerCase(arg)))}
  ELSE IF fn = "getRandomSolutionWord"
    THEN {QueryWord(toUpperCase(instance.dict.solutions[randomIndex + 1])) :
            randomIndex \in 0..(Len(instance.dict.solutions) - 1)}
  ELSE {QueryWord(getDeterministicSolutionWord(instance.dict, arg))}

\* isValidGuess, isValidSolution, getRandomSolutionWord and
\* getDeterministicSolutionWord on the module's dictionaryInstance: each throws
\* when it is null; Math.random picks any index
DictionaryQuery(instance, fn, arg) ==
  IF ~instance.loaded THEN {QueryThrows}
  ELSE IF fn = "isValidGuess"
    THEN {QueryBool(SetHas(instance.dict.allowed, toLowerCase(arg)))}
  ELSE IF fn = "isValidSolution"
    THEN {QueryBool(SetHas(instance.dict.solutions, toLowerCase(arg)))}
  ELSE IF fn = "getRandomSolutionWord"
    THEN {QueryWord(toUpperCase(instance.dict.solutions[randomIndex + 1])) :
            randomIndex \in 0..(Len(instance.dict.solutions) - 1)}
  ELSE {QueryWord(getDeterministicSolutionWord(instance.dict, arg))}

(***************************************************************************)
(* wordManager.ts: suggestHintWord                                         *)
(***************************************************************************)
\* the constraints before any row is read; 0 stands for null in mustBe
NoConstraints ==
  [mustBe |-> [i \in 1..5 |-> 0], mustInclude |-> {}, mustNotInclude |-> {},
   cannotBe |-> [i \in 1..5 |-> {}]]

\* a step that takes the letters of the rows as they are written
HintStepAsWritten(cons, row, i) ==
  LET letter == row[i].letter
      status == row[i].status
      foundElsewhere ==
        \E j \in 1..Len(row) :
          j # i /\ row[j].letter = letter /\ row[j].status # "absent"
  IN IF status = "correct"
       THEN [cons EXCEPT !.mustBe[i] = letter]
     ELSE IF status = "present"
       THEN [cons EXCEPT !.mustInclude = @ \cup {letter},
                         !.cannotBe[i] = @ \cup {letter}]
     ELSE IF status = "absent"
       THEN IF ~foundElsewhere
              THEN [cons EXCEPT !.mustNotInclude = @ \cup {letter}]
              ELSE [cons EXCEPT !.cannotBe[i] = @ \cup {letter}]
     ELSE cons

\* a step that excludes every absent letter from the whole word
HintStepAlwaysExclude(cons, row, i) ==
  LET letter == toLowerCase(<<row[i].letter>>)[1]
      status == row[i].status
  IN IF status = "correct"
       THEN [cons EXCEPT !.mustBe[i] = letter]
     ELSE IF status = "present"
       THEN [cons EXCEPT !.mustInclude = @ \cup {letter},
                         !.cannotBe[i] = @ \cup {letter}]
     ELSE IF status = "absent"
       THEN [cons EXCEPT !.mustNotInclude = @ \cup {letter}]
     ELSE cons

\* lines 29-50: entry i of one row
HintStep(cons, row, i) ==
  LET letter == toLowerCase(<<row[i].letter>>)[1]
      status == row[i].status
      foundElsewhere ==
        \E j \in 1..Len(row) :
          /\ j # i
          /\ toLowerCase(<<row[j].letter>>)[1] = letter
          /\ row[j].status # "absent"
  IN IF status = "correct"
       THEN [cons EXCEPT !.mustBe[i] = letter]
     ELSE IF status = "present"
       THEN [cons EXCEPT !.mustInclude = @ \cup {letter},
                         !.cannotBe[i] = @ \cup {letter}]
     ELSE IF status = "absent"
       THEN IF ~foundElsewhere
              THEN [cons EXCEPT !.mustNotInclude = @ \cup {letter}]
              ELSE [cons EXCEPT !.cannotBe[i] = @ \cup {letter}]
     ELSE cons

\* lines 28-51: the loop over the entries of row
RECURSIVE HintRow(_, _, _)
HintRow(cons, row, i) ==
  IF i > Len(row) THEN cons ELSE HintRow(HintStep(cons, row, i), row, i + 1)

\* lines 27-52: the loop over the rows
RECURSIVE HintRows(_, _, _)
HintRows(cons, feedback, g) ==
  IF g > Len(feedback) THEN cons
  ELSE HintRows(HintRow(cons, feedback[g], 1), feedback, g + 1)

\* String.prototype.includes for one character; Array.prototype.includes
IncludesChar(word, ch) == \E i \in 1..Len(word) : word[i] = ch
IncludesWord(guesses, word) == \E k \in 1..Len(guesses) : guesses[k] = word

\* a filter that does not look at the excluded positions
HintFilterNoPositions(word, cons, guesses) ==
  /\ \A i \in 1..5 : ~(cons.mustBe[i] # 0 /\ word[i] # cons.mustBe[i])
  /\ \A ch \in cons.mustInclude : IncludesChar(word, ch)
  /\ \A ch \in cons.mustNotInclude : ~IncludesChar(word, ch)
  /\ ~IncludesWord(guesses, word)

\* lines 56-72: the filter callback
HintFilter(word, cons, guesses) ==
  /\ \A i \in 1..5 :
       /\ ~(cons.mustBe[i] # 0 /\ word[i] # cons.mustBe[i])
       /\ word[i] \notin cons.cannotBe[i]
  /\ \A ch \in cons.mustInclude : IncludesChar(word, ch)
  /\ \A ch \in cons.mustNotInclude : ~IncludesChar(word, ch)
  /\ ~IncludesWord(guesses, word)

\* solutions.filter(...): the words that pass, in the order of solutions
RECURSIVE FilterWords(_, _, _, _)
FilterWords(solutions, cons, guesses, k) ==
  IF k > Len(solutions) THEN <<>>
  ELSE (IF HintFilter(solutions[k], cons, guesses) THEN <<solutions[k]>> ELSE <<>>)
       \o FilterWords(solutions, cons, guesses, k + 1)

\* suggestHintWord: the values the call can resolve to; Math.random picks
\* any index when there are two candidates or more
suggestHintWord(guesses, feedback, solutions) ==
  LET validWords == FilterWords(solutions, HintRows(NoConstraints, feedback, 1),
                                guesses, 1)
  IN IF Len(validWords) = 0 THEN {[null |-> TRUE, word |-> <<>>]}
     ELSE IF Len(validWords) = 1 THEN {[null |-> FALSE, word |-> validWords[1]]}
     ELSE {[null |-> FALSE, word |-> validWords[k + 1]] : k \in 0..(Len(validWords) - 1)}

(***************************************************************************)
(* firestoreService.ts: the records and the retry loop                     *)
(***************************************************************************)
\* DEFAULT_RETRY_CONFIG.maxRetries
MaxRetries == 3

\* the hour buckets of the model: consecutive UTC hours, the first with key 0
HourIds ==
  << Str(<<"2","0","2","4","0","1","0","1","0","4">>),
     Str(<<"2","0","2","4","0","1","0","1","0","5">>) >>
NumHours == Len(HourIds)

EmptyData ==
  [word |-> <<>>, createdAt |-> [valid |-> FALSE, t |-> 0], source |-> "",
   dictionaryVersion |-> "", hash |-> [kind |-> "undefined", text |-> <<>>]]

\* getWordDocument's null
NullDoc == [exists |-> FALSE, data |-> EmptyData]

\* FirestoreError codes withRetry rethrows at once
NoRetryCodes == {"permission-denied", "unauthenticated", "already-exists"}
TransientCodes ==
  {"unavailable", "deadline-exceeded", "resource-exhausted", "internal", "aborted"}
\* a FirestoreError code of neither kind
OtherCodes == {"invalid-argument"}

\* what one attempt of a store request can throw: a FirestoreError with a
\* code, or something that is not a FirestoreError
ReadFailures ==
  [firestore : {TRUE}, code : {"permission-denied", "unauthenticated"}
                              \cup TransientCodes \cup OtherCodes]
  \cup {[firestore |-> FALSE, code |-> "network"]}

\* a catch block that retries every failure, permission errors included
RetryDecisionRetryAll(attempt, failure) ==
  IF attempt = MaxRetries THEN [act |-> "throw", code |-> "max-retries-exceeded"]
  ELSE [act |-> "retry", code |-> ""]

\* a catch block that gives up one attempt later
RetryDecisionOneMore(attempt, failure) ==
  IF failure.firestore /\ failure.code \in NoRetryCodes
    THEN [act |-> "throw", code |-> failure.code]
  ELSE IF attempt = MaxRetries + 1
    THEN [act |-> "throw", code |-> "max-retries-exceeded"]
  ELSE [act |-> "retry", code |-> ""]

\* withRetry's catch block for the failure of attempt number `attempt`
RetryDecision(attempt, failure) ==
  IF failure.firestore /\ failure.code \in NoRetryCodes
    THEN [act |-> "throw", code |-> failure.code]
  ELSE IF attempt = MaxRetries
    THEN [act |-> "throw", code |-> "max-retries-exceeded"]
  ELSE [act |-> "retry", code |-> ""]

(***************************************************************************)
(* wordManager.ts: validateWordDocument                                    *)
(***************************************************************************)
\* /^[A-Za-z0-9+/]+=*$/
RECURSIVE MatchesBase64Like(_)
MatchesBase64Like(s) ==
  IF s = <<>> THEN FALSE
  ELSE IF s[Len(s)] = 61 THEN MatchesBase64Like(SubSeq(s, 1, Len(s) - 1))
  ELSE \A i \in 1..Len(s) : IsB64Code(s[i])

validateWordDocument(doc) ==
  /\ doc.word # <<>>
  /\ doc.source # ""
  /\ doc.dictionaryVersion # ""
  /\ MatchesBase64Like(doc.word)
  /\ doc.createdAt.valid
  /\ doc.hash.kind \in {"undefined", "string"}


(***************************************************************************)
(* timeUtils.ts.  A Date is its time value, kept as whole days since the   *)
(* epoch and milliseconds within the day, so that no number passes 2^31.   *)
(***************************************************************************)
MsPerHour == 3600000
MsPerDay == 24 * MsPerHour

\* Date.UTC(y, m, d): the day number of a civil date (proleptic Gregorian)
DayFromCivil(y, m, d) ==
  LET yy == IF m <= 2 THEN y - 1 ELSE y
      era == yy \div 400
      yoe == yy - era * 400
      mp == IF m > 2 THEN m - 3 ELSE m + 9
      doy == (153 * mp + 2) \div 5 + d - 1
      doe == yoe * 365 + yoe \div 4 - yoe \div 100 + doy
  IN era * 146097 + doe - 719468

\* new Date('yyyy-mm-ddThh:00:00.000Z') plus ms milliseconds
DateOf(y, m, d, h, ms) == [day |-> DayFromCivil(y, m, d), ms |-> h * MsPerHour + ms]

\* YearFromTime, MonthFromTime and DateFromTime of a day number
CivilFromDay(day) ==
  LET z == day + 719468
      era == z \div 146097
      doe == z - era * 146097
      yoe == (doe - doe \div 1460 + doe \div 36524 - doe \div 146096) \div 365
      doy == doe - (365 * yoe + yoe \div 4 - yoe \div 100)
      mp == (5 * doy + 2) \div 153
      m == IF mp < 10 THEN mp + 3 ELSE mp - 9
  IN [year |-> yoe + era * 400 + (IF m <= 2 THEN 1 ELSE 0),
      month |-> m,
      date |-> doy - (153 * mp + 2) \div 5 + 1]

getUTCFullYear(date) == CivilFromDay(date.day).year
\* 0 for January
getUTCMonth(date) == CivilFromDay(date.day).month - 1
getUTCDate(date) == CivilFromDay(date.day).date
getUTCHours(date) == date.ms \div MsPerHour

\* Date.prototype.setUTCHours(hour, 0, 0, 0): MakeDate(Day(t), MakeTime(...)),
\* an hour of 24 runs over into the next day
setUTCHours(date, hour) ==
  [day |-> date.day + (hour * MsPerHour) \div MsPerDay,
   ms |-> (hour * MsPerHour) % MsPerDay]

\* a.getTime() - b.getTime() for dates at most a day apart
TimeDiff(a, b) == (a.day - b.day) * MsPerDay + (a.ms - b.ms)

RECURSIVE Digits(_)
\* String(n) of a non-negative integer
Digits(n) ==
  IF n < 10 THEN <<48 + n>> ELSE Append(Digits(n \div 10), 48 + (n % 10))

\* String(n) of any integer; 45 is '-'
NumberToString(n) == IF n < 0 THEN <<45>> \o Digits(0 - n) ELSE Digits(n)

\* no padding at all
PadStartNone(s) == s

\* String.prototype.padStart(2, '0')
PadStart2(s) == IF Len(s) < 2 THEN <<48>> \o s ELSE s

hourIdUtc(date) ==
  NumberToString(getUTCFullYear(date))
    \o PadStart2(NumberToString(getUTCMonth(date) + 1))
    \o PadStart2(NumberToString(getUTCDate(date)))
    \o PadStart2(NumberToString(getUTCHours(date)))

\* a variant that measures the delay to the end of the hour
millisecondsToHourEnd(date) ==
  TimeDiff(setUTCHours(date, getUTCHours(date) + 1), date) - 1

millisecondsToNextHour(date) ==
  TimeDiff(setUTCHours(date, getUTCHours(date) + 1), date)

isSameUtcHour(date1, date2) == hourIdUtc(date1) = hourIdUtc(date2)


(***************************************************************************)
(* State                                                                   *)
(***************************************************************************)
VARIABLES
  store,        \* the Firestore collection "words": hour index -> document or null
  now,          \* the wall clock read by new Date() when a document is built
  faults,       \* store responses that were failures, so far
  stale,        \* reads that missed an existing record, so far
  client,       \* per client process: the running lifecycle call and its log
  dictionaryInstance, \* dictionary.ts: the module-level singleton
  allWords,     \* dictionary.ts: the ALL_WORDS array (ALLOWED_WORDS is the same array)
  built,        \* number of Dictionary objects constructed so far
  caller,       \* per loadDictionary call: where it is and what it returned
  evGuess,      \* evaluator input: the guess
  evSecret,     \* evaluator input: the secret
  evOut,        \* evaluator output
  evPc,         \* "ready" before the call, "done" after
  queries,      \* dictionary.ts: the query calls made so far and their outcomes
  kbRows,       \* keyboard: the feedback rows passed to getKeyboardLetterStatus
  kbMap,        \* keyboard: the map it returned
  hGuesses,     \* hint: the guesses argument of suggestHintWord
  hFeedback,    \* hint: the feedback argument
  hOut,         \* hint: what the call resolved to
  hPc,          \* hint: "ready" before the call, "done" after
  cWord,        \* cipher: the word argument of encryptWord
  cHourId,      \* cipher: the hour id
  cOut,         \* cipher: the payload and what decryptWord made of it
  cPc,          \* cipher: "ready" before the calls, "done" after
  rOp,          \* withRetry: the operation run, "get" or "create"
  rAttempt,     \* withRetry: the loop variable attempt
  rTrace,       \* withRetry: the outcomes of the attempts made so far
  rResult,      \* withRetry: how the operation ended
  rPc,          \* withRetry: "call", "wait" (the backoff delay) or "done"
  tA,           \* timeUtils: a Date
  tB,           \* timeUtils: a Date not earlier than tA
  tOut,         \* timeUtils: what the functions returned for them
  tPc,          \* timeUtils: "ready" before the calls, "done" after
  gState,       \* useGameState: the gameState of the hook
  gSaved,       \* useGameState: localStorage item 'mintle-progress'
  gHour,        \* useGameState: the UTC hour the clock is in
  gRuns,        \* useGameState: the initializeGame runs started so far
  gDict,        \* useGameState: whether loadDictionary has resolved
  gLast         \* useGameState: what the last submitGuess call answered

vars == <<store, now, faults, stale, client, dictionaryInstance, allWords, built,
          caller, queries, evGuess, evSecret, evOut, evPc, kbRows, kbMap,
          hGuesses, hFeedback, hOut, hPc, cWord, cHourId, cOut, cPc,
          rOp, rAttempt, rTrace, rResult, rPc, tA, tB, tOut, tPc,
          gState, gSaved, gHour, gRuns, gDict, gLast>>

Clients == 1..NumClients

(***************************************************************************)
(* The document store (Firestore behind the deployed security rules)       *)
(***************************************************************************)
\* a store operation may fail when the budget of failing operations is not
\* used up, and again on each retry of an operation that has failed before
MayFail(attempt) == attempt > 0 \/ faults < MaxFaults

\* what attempt number `attempt` of a getDoc can answer for hour k
ReadOutcomes(k, attempt) ==
  {[kind |-> "value", doc |-> store[k], failure |-> [firestore |-> TRUE, code |-> ""]]}
  \cup (IF stale < MaxStale /\ store[k].exists
          THEN {[kind |-> "stale", doc |-> NullDoc,
                 failure |-> [firestore |-> TRUE, code |-> ""]]}
          ELSE {})
  \cup {[kind |-> "fail", doc |-> NullDoc, failure |-> f]
          : f \in IF MayFail(attempt) THEN ReadFailures ELSE {}}

\* a create that replaces whatever the bucket holds
CreateOverwrites(k, attempt, data) ==
  {[kind |-> "created", after |-> [exists |-> TRUE, data |-> data],
    failure |-> [firestore |-> TRUE, code |-> ""]]}

\* what a create attempt can answer for hour k: the record is written only
\* when the bucket is empty, otherwise the attempt is rejected as already-exists;
\* a failed attempt writes nothing, except that a transient failure may be
\* reported although the write was applied
CreateOutcomes(k, attempt, data) ==
  (IF store[k].exists
     THEN {[kind |-> "fail", after |-> store[k],
            failure |-> [firestore |-> TRUE, code |-> "already-exists"]]}
     ELSE {[kind |-> "created", after |-> [exists |-> TRUE, data |-> data],
            failure |-> [firestore |-> TRUE, code |-> ""]]})
  \cup {[kind |-> "fail", after |-> store[k], failure |-> f]
          : f \in IF MayFail(attempt) THEN ReadFailures ELSE {}}
  \cup {[kind |-> "fail", after |-> [exists |-> TRUE, data |-> data],
         failure |-> [firestore |-> TRUE, code |-> tc]]
          : tc \in IF MayFail(attempt) /\ ~store[k].exists THEN TransientCodes ELSE {}}

(***************************************************************************)
(* firestoreService.ts: one attempt of getWordDocument / createWordDocument *)
(***************************************************************************)
\* getWordDocument: the inner catch wraps what is not a FirestoreError, then
\* withRetry decides
getWordDocumentAttempt(attempt, o) ==
  IF o.kind = "fail"
    THEN LET thrown == IF o.failure.firestore THEN o.failure
                       ELSE [firestore |-> FALSE, code |-> "get-document-failed"]
             d == RetryDecision(attempt, thrown)
         IN [act |-> d.act, code |-> d.code, doc |-> NullDoc]
    ELSE [act |-> "return", code |-> "", doc |-> o.doc]

\* createWordDocument: already-exists becomes the value false inside the
\* retried function, other failures go to withRetry
createWordDocumentAttempt(attempt, o) ==
  IF o.kind = "created" THEN [act |-> "return", code |-> "", value |-> TRUE]
  ELSE IF o.failure.firestore /\ o.failure.code = "already-exists"
    THEN [act |-> "return", code |-> "", value |-> FALSE]
  ELSE LET thrown == IF o.failure.firestore THEN o.failure
                     ELSE [firestore |-> FALSE, code |-> "create-document-failed"]
           d == RetryDecision(attempt, thrown)
       IN [act |-> d.act, code |-> d.code, value |-> FALSE]


(***************************************************************************)
(* wordManager.ts: getOrCreateHourlyWord, getCurrentHourWord,              *)
(* getWordForDate, preGenerateWords                                        *)
(***************************************************************************)
IdleClient ==
  [mode |-> "none", pc |-> "idle", hourIdx |-> 1, attempt |-> 0, word |-> <<>>,
   wordDoc |-> EmptyData, calls |-> <<>>, firstRead |-> "none", create |-> "none",
   via |-> "", batchStart |-> 1, batchN |-> 0, batchI |-> 0,
   generatedHours |-> <<>>, log |-> <<>>]

\* getOrCreateHourlyWord(hourId) up to its first await: getWordDocument is called
BeginCall(cr, k) ==
  [cr EXCEPT !.pc = "get1", !.hourIdx = k, !.attempt = 0, !.word = <<>>,
             !.wordDoc = EmptyData, !.calls = <<"get">>, !.firstRead = "none",
             !.create = "none", !.via = ""]

\* the record of a finished lifecycle call
CallRecord(cr, status, word, err, from, doc) ==
  [hourIdx |-> cr.hourIdx, status |-> status, word |-> word, err |-> err,
   from |-> from, doc |-> doc, calls |-> cr.calls, firstRead |-> cr.firstRead,
   create |-> cr.create, derived |-> cr.word, stored |-> cr.wordDoc]

\* a batch that stops at the first call that fails
FinishAbortOnFailure(cr, rec) ==
  LET logged == [cr EXCEPT !.log = Append(@, rec)]
  IN IF cr.mode = "batch" /\ rec.status = "ok"
          /\ cr.batchI + 1 < cr.batchN
       THEN BeginCall([logged EXCEPT !.generatedHours = Append(@, HourIds[rec.hourIdx]),
                                     !.batchI = @ + 1],
                      cr.batchStart + cr.batchI + 1)
     ELSE IF cr.mode = "batch" /\ rec.status = "ok"
       THEN [logged EXCEPT !.generatedHours = Append(@, HourIds[rec.hourIdx]),
                           !.batchI = @ + 1, !.pc = "done"]
     ELSE [logged EXCEPT !.pc = "done"]

\* the call returns or throws; preGenerateWords then pushes the hour id of a
\* call that succeeded and goes on to the next hour whatever the outcome
Finish(cr, rec) ==
  LET logged == [cr EXCEPT !.log = Append(@, rec)]
  IN IF cr.mode = "batch"
       THEN LET pushed ==
                  [logged EXCEPT !.generatedHours =
                     IF rec.status = "ok" THEN Append(@, HourIds[rec.hourIdx]) ELSE @,
                     !.batchI = @ + 1]
            IN IF pushed.batchI < pushed.batchN
                 THEN BeginCall(pushed, pushed.batchStart + pushed.batchI)
                 ELSE [pushed EXCEPT !.pc = "done"]
       ELSE [logged EXCEPT !.pc = "done"]

\* a read that falls back to the payload as stored when it does not decode
ReturnStoredLenient(cr, doc, from) ==
  LET decrypted == decryptWord(doc.data.word, HourIds[cr.hourIdx])
  IN IF decrypted.ok
       THEN Finish(cr, CallRecord(cr, "ok", toUpperCase(decrypted.text), "", from, doc))
       ELSE Finish(cr, CallRecord(cr, "ok", toUpperCase(doc.data.word), "", from, doc))

\* a return of the decrypted payload without the upper-casing
ReturnStoredAsIs(cr, doc, from) ==
  LET decrypted == decryptWord(doc.data.word, HourIds[cr.hourIdx])
  IN IF decrypted.ok
       THEN Finish(cr, CallRecord(cr, "ok", decrypted.text, "", from, doc))
       ELSE Finish(cr, CallRecord(cr, "error", <<>>, "decrypt-failed", from, doc))

\* a read that returned a document: decrypt it and return it in upper case
ReturnStored(cr, doc, from) ==
  LET decrypted == decryptWord(doc.data.word, HourIds[cr.hourIdx])
  IN IF decrypted.ok
       THEN Finish(cr, CallRecord(cr, "ok", toUpperCase(decrypted.text), "", from, doc))
       ELSE Finish(cr, CallRecord(cr, "error", <<>>, "decrypt-failed", from, doc))

\* lines 93-101: the first getWordDocument settles
AfterFirstRead(cr, o) ==
  LET r == getWordDocumentAttempt(cr.attempt, o)
  IN IF r.act = "retry" THEN [cr EXCEPT !.attempt = @ + 1]
     ELSE IF r.act = "throw"
       THEN Finish(cr, CallRecord(cr, "error", <<>>, r.code, "first", NullDoc))
     ELSE IF r.doc.exists
       THEN ReturnStored([cr EXCEPT !.firstRead = "found"], r.doc, "first")
     ELSE [cr EXCEPT !.pc = "load", !.firstRead = "absent"]

\* lines 104-120: loadDictionary has resolved; derive, encrypt, build the
\* document and call createWordDocument
AfterLoad(cr, dict, clock) ==
  LET hourId == HourIds[cr.hourIdx]
      word == getDeterministicSolutionWord(dict, hourId)
      wordDoc == [word |-> encryptWord(word, hourId),
                  createdAt |-> [valid |-> TRUE, t |-> clock],
                  source |-> "client",
                  dictionaryVersion |-> "v1",
                  hash |-> [kind |-> "string", text |-> generateWordHash(word, hourId)]]
  IN [cr EXCEPT !.pc = "create", !.attempt = 0, !.word = word, !.wordDoc = wordDoc,
                !.calls = Append(@, "create")]

\* a creator that re-reads the store after its own successful create
AfterCreateRereadAlways(cr, o) ==
  LET r == createWordDocumentAttempt(cr.attempt, o)
  IN IF r.act = "retry" THEN [cr EXCEPT !.attempt = @ + 1]
     ELSE IF r.act = "throw"
       THEN Finish([cr EXCEPT !.create = r.code],
                   CallRecord([cr EXCEPT !.create = r.code], "error", <<>>, r.code,
                              "create", NullDoc))
     ELSE [cr EXCEPT !.pc = "reread", !.via = "final", !.attempt = 0,
                     !.create = IF r.value THEN "created" ELSE "conflict",
                     !.calls = Append(@, "get")]

\* a conflict that is reported to the caller as an error
AfterCreateConflictFails(cr, o) ==
  LET r == createWordDocumentAttempt(cr.attempt, o)
  IN IF r.act = "retry" THEN [cr EXCEPT !.attempt = @ + 1]
     ELSE IF r.act = "return" /\ r.value
       THEN Finish([cr EXCEPT !.create = "created"],
                   CallRecord([cr EXCEPT !.create = "created"], "ok", cr.word, "",
                              "created", NullDoc))
     ELSE LET code == IF r.act = "throw" THEN r.code ELSE "already-exists"
              failed == [cr EXCEPT !.create = IF r.act = "throw" THEN r.code
                                              ELSE "conflict"]
          IN Finish(failed, CallRecord(failed, "error", <<>>, code, "create", NullDoc))

\* lines 119-138: createWordDocument settles
AfterCreate(cr, o) ==
  LET r == createWordDocumentAttempt(cr.attempt, o)
  IN IF r.act = "retry" THEN [cr EXCEPT !.attempt = @ + 1]
     ELSE IF r.act = "throw"
       THEN \* the catch block: only already-exists is read again
            IF r.code = "already-exists"
              THEN [cr EXCEPT !.pc = "reread", !.via = "catch", !.attempt = 0,
                              !.create = "conflict", !.calls = Append(@, "get")]
              ELSE Finish([cr EXCEPT !.create = r.code],
                          CallRecord([cr EXCEPT !.create = r.code], "error", <<>>,
                                     r.code, "create", NullDoc))
     ELSE IF r.value
       THEN Finish([cr EXCEPT !.create = "created"],
                   CallRecord([cr EXCEPT !.create = "created"], "ok", cr.word, "",
                              "created", NullDoc))
     ELSE \* created is false: fall through to the final read
          [cr EXCEPT !.pc = "reread", !.via = "final", !.attempt = 0,
                     !.create = "conflict", !.calls = Append(@, "get")]

\* a read after the create that falls back to the word derived locally when
\* it finds no record
AfterRereadFallsBack(cr, o) ==
  LET r == getWordDocumentAttempt(cr.attempt, o)
  IN IF r.act = "retry" THEN [cr EXCEPT !.attempt = @ + 1]
     ELSE IF r.act = "throw"
       THEN Finish(cr, CallRecord(cr, "error", <<>>, r.code, "reread", NullDoc))
     ELSE IF r.doc.exists THEN ReturnStored(cr, r.doc, "reread")
     ELSE Finish(cr, CallRecord(cr, "ok", cr.word, "", "reread", NullDoc))

\* lines 127-133 and 138-144: the read after a create that did not succeed
AfterReread(cr, o) ==
  LET r == getWordDocumentAttempt(cr.attempt, o)
  IN IF r.act = "retry" THEN [cr EXCEPT !.attempt = @ + 1]
     ELSE IF r.act = "throw"
       THEN Finish(cr, CallRecord(cr, "error", <<>>, r.code, "reread", NullDoc))
     ELSE IF r.doc.exists THEN ReturnStored(cr, r.doc, "reread")
     ELSE Finish(cr, CallRecord(cr, "error", <<>>,
                                IF cr.via = "catch" THEN "already-exists"
                                ELSE "failed-to-get-or-create",
                                "reread", NullDoc))


(***************************************************************************)
(* The lifecycle specification: clients against the shared store           *)
(***************************************************************************)
ForeignWord == Str(<<"p","e","a","c","e">>)

\* records a bucket may hold before any client of the model runs: one written
\* by another client for another word list, and malformed ones
InitialRecords(k) ==
  LET good == [word |-> encryptWord(ForeignWord, HourIds[k]),
               createdAt |-> [valid |-> TRUE, t |-> 0],
               source |-> "client", dictionaryVersion |-> "v0",
               hash |-> [kind |-> "string",
                         text |-> generateWordHash(ForeignWord, HourIds[k])]]
  IN { good,
       \* the payload is not base64: "hel!o==="
       [good EXCEPT !.word = Str(<<"h","e","l","!","o","=","=","=">>)],
       \* the payload is a plain word, as in the data model of the README
       [good EXCEPT !.word = ForeignWord],
       \* createdAt does not parse
       [good EXCEPT !.createdAt = [valid |-> FALSE, t |-> 0]],
       \* hash is a number
       [good EXCEPT !.hash = [kind |-> "number", text |-> <<>>]] }

\* the components other than `part` have not been started
Idle(part) ==
  /\ IF part = "lifecycle" THEN TRUE
     ELSE /\ store = [k \in 1..NumHours |-> NullDoc]
          /\ now = 0
          /\ faults = 0
          /\ stale = 0
          /\ client = [c \in Clients |-> IdleClient]
  /\ IF part = "dictionary" THEN TRUE
     ELSE /\ dictionaryInstance = [loaded |-> FALSE, dict |-> NewDictionary(0, ALL_WORDS)]
          /\ allWords = ALL_WORDS
          /\ built = 0
          /\ caller = <<>>
          /\ queries = <<>>
  /\ IF part = "evaluation" THEN TRUE
     ELSE /\ evGuess = <<>>
          /\ evSecret = <<>>
          /\ evOut = [ok |-> FALSE, feedback |-> <<>>]
          /\ evPc = "off"
  /\ IF part = "keyboard" THEN TRUE
     ELSE /\ kbRows = <<>>
          /\ kbMap = <<>>
  /\ IF part = "hint" THEN TRUE
     ELSE /\ hGuesses = <<>>
          /\ hFeedback = <<>>
          /\ hOut = [null |-> TRUE, word |-> <<>>]
          /\ hPc = "off"
  /\ IF part = "cipher" THEN TRUE
     ELSE /\ cWord = <<>>
          /\ cHourId = <<>>
          /\ cOut = [payload |-> <<>>, ok |-> FALSE, text |-> <<>>]
          /\ cPc = "off"
  /\ IF part = "retry" THEN TRUE
     ELSE /\ rOp = "none"
          /\ rAttempt = 0
          /\ rTrace = <<>>
          /\ rResult = [kind |-> "none", code |-> ""]
          /\ rPc = "off"
  /\ IF part = "time" THEN TRUE
     ELSE /\ tA = [day |-> 0, ms |-> 0]
          /\ tB = [day |-> 0, ms |-> 0]
          /\ tOut = [idA |-> <<>>, idB |-> <<>>, same |-> FALSE, toNext |-> 0]
          /\ tPc = "off"
  /\ IF part = "game" THEN TRUE
     ELSE /\ gState = <<>>
          /\ gSaved = <<>>
          /\ gHour = 0
          /\ gRuns = <<>>
          /\ gDict = FALSE
          /\ gLast = <<>>

\* the steps of `part` leave the other components alone
Frame(part) ==
  /\ IF part = "lifecycle" THEN TRUE
     ELSE UNCHANGED <<store, now, faults, stale, client>>
  /\ IF part = "dictionary" THEN TRUE
     ELSE UNCHANGED <<dictionaryInstance, allWords, built, caller, queries>>
  /\ IF part = "evaluation" THEN TRUE
     ELSE UNCHANGED <<evGuess, evSecret, evOut, evPc>>
  /\ IF part = "keyboard" THEN TRUE ELSE UNCHANGED <<kbRows, kbMap>>
  /\ IF part = "hint" THEN TRUE ELSE UNCHANGED <<hGuesses, hFeedback, hOut, hPc>>
  /\ IF part = "cipher" THEN TRUE ELSE UNCHANGED <<cWord, cHourId, cOut, cPc>>
  /\ IF part = "retry" THEN TRUE
     ELSE UNCHANGED <<rOp, rAttempt, rTrace, rResult, rPc>>
  /\ IF part = "time" THEN TRUE ELSE UNCHANGED <<tA, tB, tOut, tPc>>
  /\ IF part = "game" THEN TRUE
     ELSE UNCHANGED <<gState, gSaved, gHour, gRuns, gDict, gLast>>

Init ==
  /\ store \in [1..NumHours -> {NullDoc}
                  \cup UNION {{[exists |-> TRUE, data |-> d] : d \in InitialRecords(k)}
                               : k \in 1..NumHours}]
  \* later hours start empty; a record may already be there for the first
  /\ \A k \in 1..NumHours :
       store[k].exists => k = 1 /\ store[k].data \in InitialRecords(k)
  /\ now = 0
  /\ faults = 0
  /\ stale = 0
  /\ client = [c \in Clients |-> IdleClient]
  /\ Idle("lifecycle")

\* getCurrentHourWord / getWordForDate: one lifecycle call for one hour
StartSingle(c) ==
  /\ client[c].pc = "idle"
  /\ \E k \in 1..NumHours :
       client' = [client EXCEPT ![c] = BeginCall([@ EXCEPT !.mode = "single"], k)]
  /\ UNCHANGED <<store, now, faults, stale>>
  /\ Frame("lifecycle")

\* preGenerateWords(n): lifecycle calls for n consecutive hours from the
\* current one, one after another
StartBatch(c) ==
  /\ client[c].pc = "idle"
  /\ \E k0 \in {1} : \E n \in 0..(NumHours - k0 + 1) :
       client' = [client EXCEPT ![c] =
                    IF n = 0 THEN [@ EXCEPT !.mode = "batch", !.pc = "done"]
                    ELSE BeginCall([@ EXCEPT !.mode = "batch", !.batchStart = k0,
                                             !.batchN = n, !.batchI = 0], k0)]
  /\ UNCHANGED <<store, now, faults, stale>>
  /\ Frame("lifecycle")

\* the budgets a read outcome uses up
ReadBudgets(o, attempt) ==
  /\ faults' = IF o.kind = "fail" /\ attempt = 0 THEN faults + 1 ELSE faults
  /\ stale' = IF o.kind = "stale" THEN stale + 1 ELSE stale

FirstRead(c) ==
  /\ client[c].pc = "get1"
  /\ \E o \in ReadOutcomes(client[c].hourIdx, client[c].attempt) :
       /\ client' = [client EXCEPT ![c] = AfterFirstRead(@, o)]
       /\ ReadBudgets(o, client[c].attempt)
  /\ UNCHANGED <<store, now>>
  /\ Frame("lifecycle")

\* the await of loadDictionary resumes; new Date() reads a clock that has
\* stood still or moved on since it was last read
LoadResolved(c) ==
  /\ client[c].pc = "load"
  /\ \E clock \in {now, now + 1} :
       /\ clock <= MaxClock
       /\ now' = clock
       /\ client' = [client EXCEPT ![c] =
                       AfterLoad(@, NewDictionary(c, ALL_WORDS), clock)]
  /\ UNCHANGED <<store, faults, stale>>
  /\ Frame("lifecycle")

Create(c) ==
  /\ client[c].pc = "create"
  /\ \E o \in CreateOutcomes(client[c].hourIdx, client[c].attempt, client[c].wordDoc) :
       /\ store' = [store EXCEPT ![client[c].hourIdx] = o.after]
       /\ faults' = IF o.kind = "fail" /\ o.failure.code # "already-exists"
                         /\ client[c].attempt = 0
                      THEN faults + 1 ELSE faults
       /\ client' = [client EXCEPT ![c] = AfterCreate(@, o)]
  /\ UNCHANGED <<now, stale>>
  /\ Frame("lifecycle")

Reread(c) ==
  /\ client[c].pc = "reread"
  /\ \E o \in ReadOutcomes(client[c].hourIdx, client[c].attempt) :
       /\ client' = [client EXCEPT ![c] = AfterReread(@, o)]
       /\ ReadBudgets(o, client[c].attempt)
  /\ UNCHANGED <<store, now>>
  /\ Frame("lifecycle")

Next ==
  \/ \E c \in Clients : StartSingle(c)
  \/ \E c \in Clients : FirstRead(c)
  \/ \E c \in Clients : LoadResolved(c)
  \/ \E c \in Clients : Create(c)
  \/ \E c \in Clients : Reread(c)

Spec == Init /\ [][Next]_vars

\* the same clients, any of which may also run preGenerateWords
NextBatch ==
  \/ Next
  \/ \E c \in Clients : StartBatch(c)

SpecBatch == Init /\ [][NextBatch]_vars


(***************************************************************************)
(* The dictionary specification: overlapping loadDictionary calls in one   *)
(* process                                                                 *)
(***************************************************************************)
Callers == 1..NumCallers

\* string comparison by code units, as Array.prototype.sort uses it
RECURSIVE StrLess(_, _)
StrLess(a, b) ==
  IF b = <<>> THEN FALSE
  ELSE IF a = <<>> THEN TRUE
  ELSE IF a[1] # b[1] THEN a[1] < b[1]
  ELSE StrLess(Tail(a), Tail(b))

RECURSIVE InsertSorted(_, _)
InsertSorted(sorted, w) ==
  IF sorted = <<>> THEN <<w>>
  ELSE IF StrLess(w, Head(sorted)) THEN <<w>> \o sorted
  ELSE <<Head(sorted)>> \o InsertSorted(Tail(sorted), w)

\* words.sort(): the array sorted in place
RECURSIVE SortWords(_)
SortWords(arr) ==
  IF arr = <<>> THEN <<>>
  ELSE InsertSorted(SortWords(SubSeq(arr, 1, Len(arr) - 1)), arr[Len(arr)])

IdleCaller == [pc |-> "idle", mine |-> NewDictionary(0, ALL_WORDS), ret |-> 0]

InitDict ==
  /\ dictionaryInstance = [loaded |-> FALSE, dict |-> NewDictionary(0, ALL_WORDS)]
  /\ allWords = ALL_WORDS
  /\ built = 0
  /\ caller = [i \in Callers |-> IdleCaller]
  /\ queries = <<>>
  /\ Idle("dictionary")

\* loadDictionary up to its await: the instance is returned when it is set;
\* otherwise the sets are built, generateDictionaryHash sorts the word array
\* in place and the call waits for the digest
LoadCall(i) ==
  /\ caller[i].pc = "idle"
  /\ IF dictionaryInstance.loaded
       THEN /\ caller' = [caller EXCEPT ![i] =
                            [@ EXCEPT !.pc = "done", !.ret = dictionaryInstance.dict.id]]
            /\ UNCHANGED allWords
       ELSE /\ caller' = [caller EXCEPT ![i] =
                            [@ EXCEPT !.pc = "hashing",
                                      !.mine = NewDictionary(0, allWords)]]
            /\ allWords' = SortWords(allWords)
  /\ UNCHANGED <<dictionaryInstance, built, queries>>
  /\ Frame("dictionary")

\* the digest resolves: a new object is stored in dictionaryInstance and returned
LoadResume(i) ==
  /\ caller[i].pc = "hashing"
  /\ built' = built + 1
  /\ dictionaryInstance' =
       [loaded |-> TRUE, dict |-> [caller[i].mine EXCEPT !.id = built + 1]]
  /\ caller' = [caller EXCEPT ![i] = [@ EXCEPT !.pc = "done", !.ret = built + 1]]
  /\ UNCHANGED <<allWords, queries>>
  /\ Frame("dictionary")

\* the arguments of the queries: a solution word in upper case and an allowed
\* word that is no solution; an hour id, whose hash is negative, and a seed
\* whose hash is positive
QueryArgs(fn) ==
  IF fn \in {"isValidGuess", "isValidSolution"}
    THEN {Str(<<"H","E","L","L","O">>), Str(<<"a","l","l","e","y">>)}
  ELSE IF fn = "getRandomSolutionWord" THEN {<<>>}
  ELSE {HourIds[1], Str(<<"s","e","e","d">>)}

\* some code of the process calls one of the queries
Query ==
  /\ Len(queries) < MaxQueries
  /\ \E fn \in {"isValidGuess", "isValidSolution", "getRandomSolutionWord",
                 "getDeterministicSolutionWord"} :
       \E arg \in QueryArgs(fn) :
         \E o \in DictionaryQuery(dictionaryInstance, fn, arg) :
           queries' = Append(queries,
                        [fn |-> fn, arg |-> arg, out |-> o,
                         resolved |-> \E i \in Callers : caller[i].pc = "done",
                         inFlight |-> \E i \in Callers : caller[i].pc = "hashing",
                         built |-> built])
  /\ UNCHANGED <<dictionaryInstance, allWords, built, caller>>
  /\ Frame("dictionary")

NextDict ==
  \/ \E i \in Callers : LoadCall(i)
  \/ \E i \in Callers : LoadResume(i)
  \/ Query

SpecDict == InitDict /\ [][NextDict]_vars

(***************************************************************************)
(* The evaluator specification: evaluateGuess applied to bounded inputs    *)
(***************************************************************************)
\* all five-letter words over the first EvalLetters letters
LetterWords == [1..5 -> 97..(96 + EvalLetters)]

\* words of the tests, in several letter cases, and two of the wrong length
NamedWords ==
  { Str(<<"S","P","E","E","D">>), Str(<<"E","R","A","S","E">>),
    Str(<<"A","L","L","E","Y">>), Str(<<"L","L","A","M","A">>),
    Str(<<"h","e","l","l","o">>), Str(<<"H","E","L","L","O">>),
    Str(<<"H","e","L","L","o">>), Str(<<"B","O","O","E","E">>),
    Str(<<"B","O","O","S","T">>), Str(<<"H","I">>),
    Str(<<"H","E","L","L","O","O">>) }

EvalWords == LetterWords \cup NamedWords

InitEval ==
  /\ evGuess \in EvalWords
  /\ evSecret \in EvalWords
  /\ evOut = [ok |-> FALSE, feedback |-> <<>>]
  /\ evPc = "ready"
  /\ Idle("evaluation")

Evaluate ==
  /\ evPc = "ready"
  /\ evOut' = evaluateGuess(evGuess, evSecret)
  /\ evPc' = "done"
  /\ UNCHANGED <<evGuess, evSecret>>
  /\ Frame("evaluation")


SpecEval == InitEval /\ [][Evaluate]_vars


(***************************************************************************)
(* The keyboard specification: getKeyboardLetterStatus on a growing list   *)
(* of feedback rows                                                        *)
(***************************************************************************)
\* words whose evaluations against each other give the rows
KeyboardWords ==
  { Str(<<"S","P","E","E","D">>), Str(<<"E","R","A","S","E">>),
    Str(<<"s","p","e","e","d">>), Str(<<"A","L","L","E","Y">>) }

\* the rows: any guess against any secret, so that rows may contradict each other
KeyboardRows == {evaluateGuess(g, s).feedback : g \in KeyboardWords, s \in KeyboardWords}


InitKeyboard ==
  /\ kbRows = <<>>
  /\ kbMap = getKeyboardLetterStatus(<<>>)
  /\ Idle("keyboard")

\* a guess was evaluated: the keyboard is computed from the longer list
AppendRow ==
  /\ Len(kbRows) < MaxRows
  /\ \E row \in KeyboardRows :
       /\ kbRows' = Append(kbRows, row)
       /\ kbMap' = getKeyboardLetterStatus(Append(kbRows, row))
  /\ Frame("keyboard")


SpecKeyboard == InitKeyboard /\ [][AppendRow]_vars


(***************************************************************************)
(* The hint specification: suggestHintWord in a game                       *)
(***************************************************************************)
\* a guess as the game may hold it: an allowed word, in upper case as
\* submitGuess records it, or in lower case
HintGuessWords ==
  {ALL_WORDS[i] : i \in 1..Len(ALL_WORDS)}
    \cup {toLowerCase(ALL_WORDS[i]) : i \in 1..Len(ALL_WORDS)}

HintGuessLists == UNION {[1..n -> HintGuessWords] : n \in 0..MaxHintGuesses}


\* the game state: the guesses made and their evaluations against the
\* word of the hour
InitHint ==
  /\ hGuesses \in HintGuessLists
  /\ \E secret \in {SOLUTION_WORDS[i] : i \in 1..Len(SOLUTION_WORDS)} :
       hFeedback = [g \in 1..Len(hGuesses) |-> evaluateGuess(hGuesses[g], secret).feedback]
  /\ hOut = [null |-> TRUE, word |-> <<>>]
  /\ hPc = "ready"
  /\ Idle("hint")

\* getHint: suggestHintWord(gameState.guesses, gameState.feedback)
Suggest ==
  /\ hPc = "ready"
  /\ hOut' \in suggestHintWord(hGuesses, hFeedback,
                               NewDictionary(1, ALL_WORDS).solutions)
  /\ hPc' = "done"
  /\ UNCHANGED <<hGuesses, hFeedback>>
  /\ Frame("hint")


SpecHint == InitHint /\ [][Suggest]_vars


(***************************************************************************)
(* The cipher specification: encryptWord followed by decryptWord           *)
(***************************************************************************)
\* letters at the end, the start and the middle of the alphabet
CipherAlphabet == <<"z", "a", "m", "n", "y">>

CipherChars ==
  UNION {{Ord(CipherAlphabet[i]), Ord(CipherAlphabet[i]) - 32}
           : i \in 1..(IF CipherLetterCount < Len(CipherAlphabet)
                       THEN CipherLetterCount ELSE Len(CipherAlphabet))}

CipherWords == [1..5 -> CipherChars]

\* hour ids as hourIdUtc gives them, with keys 0, 1, 13 and 25
CipherHourIds ==
  { HourIds[1], HourIds[2],
    Str(<<"2","0","2","4","0","9","1","5","1","3">>),
    Str(<<"2","0","2","9","0","9","2","9","1","5">>) }


InitCipher ==
  /\ cWord \in CipherWords
  /\ cHourId \in CipherHourIds
  /\ cOut = [payload |-> <<>>, ok |-> FALSE, text |-> <<>>]
  /\ cPc = "ready"
  /\ Idle("cipher")

\* decryptWord(encryptWord(word, hourId), hourId)
RoundTrip ==
  /\ cPc = "ready"
  /\ LET payload == encryptWord(cWord, cHourId)
         decrypted == decryptWord(payload, cHourId)
     IN cOut' = [payload |-> payload, ok |-> decrypted.ok, text |-> decrypted.text]
  /\ cPc' = "done"
  /\ UNCHANGED <<cWord, cHourId>>
  /\ Frame("cipher")


SpecCipher == InitCipher /\ [][RoundTrip]_vars


(***************************************************************************)
(* The retry specification: one store operation run through withRetry      *)
(***************************************************************************)
\* what the store request of one attempt can do: succeed, or throw
RetryOutcomes(op) ==
  {[kind |-> IF op = "create" THEN "created" ELSE "value", doc |-> NullDoc,
    failure |-> [firestore |-> TRUE, code |-> ""]]}
  \cup {[kind |-> "fail", doc |-> NullDoc, failure |-> f]
          : f \in ReadFailures \cup {[firestore |-> TRUE, code |-> "already-exists"]}}

\* the retried function of the operation and withRetry's handling of it
RetryAttempt(op, attempt, o) ==
  IF op = "create"
    THEN [act |-> createWordDocumentAttempt(attempt, o).act,
          code |-> createWordDocumentAttempt(attempt, o).code]
    ELSE [act |-> getWordDocumentAttempt(attempt, o).act,
          code |-> getWordDocumentAttempt(attempt, o).code]


InitRetry ==
  /\ rOp \in {"get", "create"}
  /\ rAttempt = 0
  /\ rTrace = <<>>
  /\ rResult = [kind |-> "none", code |-> ""]
  /\ rPc = "call"
  /\ Idle("retry")

\* lines 58-80: one pass of the loop up to the delay
Attempt ==
  /\ rPc = "call"
  /\ \E o \in RetryOutcomes(rOp) :
       LET d == RetryAttempt(rOp, rAttempt, o)
       IN /\ rTrace' = Append(rTrace, [attempt |-> rAttempt, kind |-> o.kind,
                                       failure |-> o.failure, act |-> d.act])
          /\ rPc' = IF d.act = "retry" THEN "wait" ELSE "done"
          /\ rResult' = IF d.act = "retry" THEN rResult
                        ELSE IF d.act = "throw" THEN [kind |-> "thrown", code |-> d.code]
                        ELSE [kind |-> "returned", code |-> ""]
  /\ UNCHANGED <<rOp, rAttempt>>
  /\ Frame("retry")

\* lines 82-92: the backoff delay elapses and the loop goes on
Backoff ==
  /\ rPc = "wait"
  /\ rAttempt' = rAttempt + 1
  /\ rPc' = "call"
  /\ UNCHANGED <<rOp, rTrace, rResult>>
  /\ Frame("retry")

NextRetry == Attempt \/ Backoff

SpecRetry == InitRetry /\ [][NextRetry]_vars

\* every store request settles and every timer fires
SpecRetryFair == SpecRetry /\ WF_vars(Attempt) /\ WF_vars(Backoff)


(***************************************************************************)
(* The clock specification: the functions of timeUtils.ts on two Dates     *)
(***************************************************************************)
\* the hours looked at: around the ends of days, of months with and without
\* a leap day, of years, and around the years of three, four and five digits
TimeHours ==
  {<<2024, 2, 28, 23>>, <<2024, 2, 29, 0>>, <<2024, 2, 29, 23>>, <<2024, 3, 1, 0>>,
   <<2023, 2, 28, 23>>, <<2023, 3, 1, 0>>, <<2100, 2, 28, 23>>, <<2100, 3, 1, 0>>,
   <<2024, 12, 31, 23>>, <<2025, 1, 1, 0>>, <<2025, 9, 23, 9>>, <<2025, 9, 23, 10>>,
   <<1969, 12, 31, 23>>, <<1970, 1, 1, 0>>,
   <<999, 12, 31, 23>>, <<1000, 1, 1, 0>>, <<9999, 12, 31, 23>>, <<10000, 1, 1, 0>>}

\* milliseconds into the hour: its first and second, a middle and its last
TimeOffsets == {0, 1, 2730123, MsPerHour - 1}

TimeInstants ==
  {DateOf(h[1], h[2], h[3], h[4], ms) : h \in TimeHours, ms \in TimeOffsets}

\* a.getTime() <= b.getTime()
NotLater(a, b) == a.day < b.day \/ (a.day = b.day /\ a.ms <= b.ms)


InitTime ==
  /\ tA \in TimeInstants
  /\ tB \in TimeInstants
  /\ NotLater(tA, tB)
  /\ tOut = [idA |-> <<>>, idB |-> <<>>, same |-> FALSE, toNext |-> 0]
  /\ tPc = "ready"
  /\ Idle("time")

ReadClock ==
  /\ tPc = "ready"
  /\ tOut' = [idA |-> hourIdUtc(tA), idB |-> hourIdUtc(tB),
              same |-> isSameUtcHour(tA, tB), toNext |-> millisecondsToNextHour(tA)]
  /\ tPc' = "done"
  /\ UNCHANGED <<tA, tB>>
  /\ Frame("time")


SpecTime == InitTime /\ [][ReadClock]_vars


(***************************************************************************)
(* The game specification: the hook useGameState.  gameState is kept       *)
(* without currentGuess and timeToNextHour, which no step below reads.     *)
(***************************************************************************)
MAX_GUESSES == 6
GUESS_LENGTH == 5

\* the initial value of useState
InitialGameState ==
  [currentWord |-> <<>>, guesses |-> <<>>, feedback |-> <<>>,
   gameStatus |-> "playing", hourId |-> <<>>]

\* localStorage without the item; loadGameProgress returning null
NoProgress == [exists |-> FALSE, hourId |-> <<>>, guesses |-> <<>>, gameStatus |-> "playing"]

\* loadGameProgress: the saved progress when it is for the current hour
loadGameProgress(saved, currentHourId) ==
  IF saved.exists /\ saved.hourId = currentHourId THEN saved ELSE NoProgress

\* saveGameProgress: the item written to localStorage
saveGameProgress(state) ==
  [exists |-> TRUE, hourId |-> state.hourId, guesses |-> state.guesses,
   gameStatus |-> state.gameStatus]

\* what getCurrentHourWord() resolves to in each hour when the lifecycle
\* succeeds
GameWords ==
  [k \in 1..NumHours |->
     getDeterministicSolutionWord(NewDictionary(1, ALL_WORDS), HourIds[k])]

\* dictionaryInstance before and after loadDictionary has resolved
GameDictionary ==
  [loaded \in BOOLEAN |-> [loaded |-> loaded, dict |-> NewDictionary(1, ALL_WORDS)]]

\* isValidGuess on the module's dictionary: thrown, true or false
GameValidGuess(loaded, guess) ==
  CHOOSE o \in DictionaryQuery(GameDictionary[loaded], "isValidGuess", guess) : TRUE

\* the answer of a submitGuess call that changes nothing
Rejected(state, error) ==
  [success |-> FALSE, error |-> error, threw |-> FALSE, state |-> state]

\* a submitGuess without the check of the game status
submitGuessAnyStatus(state, guess, loaded) ==
  IF Len(guess) # GUESS_LENGTH THEN Rejected(state, "Guess must be 5 letters")
  ELSE IF Len(state.guesses) >= MAX_GUESSES
    THEN Rejected(state, "No more guesses allowed")
  ELSE IF ~GameValidGuess(loaded, guess).ok THEN Rejected(state, "Validation error")
  ELSE IF ~GameValidGuess(loaded, guess).bool THEN Rejected(state, "Not in word list")
  ELSE IF ~evaluateGuess(guess, state.currentWord).ok
    THEN [success |-> FALSE, error |-> "", threw |-> TRUE, state |-> state]
  ELSE LET newGuesses == Append(state.guesses, toUpperCase(guess))
       IN [success |-> TRUE, error |-> "", threw |-> FALSE,
           state |-> [state EXCEPT
                        !.guesses = newGuesses,
                        !.feedback = Append(@, evaluateGuess(guess, state.currentWord).feedback),
                        !.gameStatus = IF isCorrectGuess(guess, state.currentWord) THEN "won"
                                       ELSE IF Len(newGuesses) >= MAX_GUESSES THEN "lost"
                                       ELSE "playing"]]

\* submitGuess: its answer, or the error evaluateGuess throws, and the state
\* passed to setGameState
submitGuess(state, guess, loaded) ==
  IF state.gameStatus # "playing" THEN Rejected(state, "Game is already finished")
  ELSE IF Len(guess) # GUESS_LENGTH THEN Rejected(state, "Guess must be 5 letters")
  ELSE IF Len(state.guesses) >= MAX_GUESSES
    THEN Rejected(state, "No more guesses allowed")
  ELSE IF ~GameValidGuess(loaded, guess).ok THEN Rejected(state, "Validation error")
  ELSE IF ~GameValidGuess(loaded, guess).bool THEN Rejected(state, "Not in word list")
  ELSE IF ~evaluateGuess(guess, state.currentWord).ok
    THEN [success |-> FALSE, error |-> "", threw |-> TRUE, state |-> state]
  ELSE LET newGuesses == Append(state.guesses, toUpperCase(guess))
       IN [success |-> TRUE, error |-> "", threw |-> FALSE,
           state |-> [state EXCEPT
                        !.guesses = newGuesses,
                        !.feedback = Append(@, evaluateGuess(guess, state.currentWord).feedback),
                        !.gameStatus = IF isCorrectGuess(guess, state.currentWord) THEN "won"
                                       ELSE IF Len(newGuesses) >= MAX_GUESSES THEN "lost"
                                       ELSE "playing"]]

\* an initializeGame run that has just been called: it awaits loadDictionary
NewRun == [pc |-> "load", hour |-> 0, saved |-> NoProgress]

\* lines 94-112 and 115-127: the state a run passes to setGameState when
\* getCurrentHourWord has resolved to currentWord
RunState(run, currentWord) ==
  IF run.saved.exists
    THEN [currentWord |-> currentWord,
          guesses |-> run.saved.guesses,
          feedback |-> [g \in 1..Len(run.saved.guesses) |->
                          evaluateGuess(run.saved.guesses[g], currentWord).feedback],
          gameStatus |-> run.saved.gameStatus,
          hourId |-> HourIds[run.hour]]
    ELSE [currentWord |-> currentWord, guesses |-> <<>>, feedback |-> <<>>,
          gameStatus |-> "playing", hourId |-> HourIds[run.hour]]

\* what the player types and submits: the word of the first hour, an allowed
\* word that is no solution, a word not in the list, a word too short
GuessInputs ==
  {toLowerCase(GameWords[1]), Str(<<"a","l","l","e","y">>),
   Str(<<"z","z","z","z","z">>), Str(<<"a","b">>)}

\* the component mounts: the mount effect calls initializeGame
InitGame ==
  /\ gState = InitialGameState
  /\ gSaved = NoProgress
  /\ gHour = 1
  /\ gRuns = <<NewRun>>
  /\ gDict = FALSE
  /\ gLast = [answer |-> "none", error |-> ""]
  /\ Idle("game")

\* the one-second timer finds that the hour id is not the one of the game
\* state and calls initializeGame
TimerTick ==
  /\ Len(gRuns) < MaxInits + 1
  /\ HourIds[gHour] # gState.hourId
  /\ gRuns' = Append(gRuns, NewRun)
  /\ UNCHANGED <<gState, gSaved, gHour, gDict, gLast>>
  /\ Frame("game")

\* resetGame
ResetGame ==
  /\ Len(gRuns) < MaxInits + 1
  /\ gRuns' = Append(gRuns, NewRun)
  /\ UNCHANGED <<gState, gSaved, gHour, gDict, gLast>>
  /\ Frame("game")

\* lines 85-96 and 115: loadDictionary has resolved; the run reads the clock
\* and the saved progress and calls getCurrentHourWord
RunLoaded(i) ==
  /\ gRuns[i].pc = "load"
  /\ gDict' = TRUE
  /\ gRuns' = [gRuns EXCEPT ![i] =
                 [pc |-> "word", hour |-> gHour,
                  saved |-> loadGameProgress(gSaved, HourIds[gHour])]]
  /\ UNCHANGED <<gState, gSaved, gHour, gLast>>
  /\ Frame("game")

\* lines 96-129: getCurrentHourWord has resolved; the state is set, and a new
\* game is saved. The run returns, and what it captured is used no more
RunResolved(i) ==
  /\ gRuns[i].pc = "word"
  /\ gState' = RunState(gRuns[i], GameWords[gRuns[i].hour])
  /\ gSaved' = IF gRuns[i].saved.exists THEN gSaved ELSE saveGameProgress(gState')
  /\ gRuns' = [gRuns EXCEPT ![i] = [NewRun EXCEPT !.pc = "done"]]
  /\ UNCHANGED <<gHour, gDict, gLast>>
  /\ Frame("game")

\* lines 130-132: getCurrentHourWord has failed; only the error is set
RunFailed(i) ==
  /\ gRuns[i].pc = "word"
  /\ gRuns' = [gRuns EXCEPT ![i] = [NewRun EXCEPT !.pc = "done"]]
  /\ UNCHANGED <<gState, gSaved, gHour, gDict, gLast>>
  /\ Frame("game")

\* the next UTC hour begins
HourPasses ==
  /\ gHour < NumHours
  /\ gHour' = gHour + 1
  /\ UNCHANGED <<gState, gSaved, gRuns, gDict, gLast>>
  /\ Frame("game")

\* the player submits a guess
Submit ==
  /\ \E guess \in GuessInputs :
       LET answer == submitGuess(gState, guess, gDict)
       IN /\ gLast' = [answer |-> IF answer.success THEN "accepted"
                                   ELSE IF answer.threw THEN "threw" ELSE "rejected",
                        error |-> answer.error]
          /\ gState' = answer.state
          /\ gSaved' = IF answer.success THEN saveGameProgress(answer.state) ELSE gSaved
  /\ UNCHANGED <<gHour, gRuns, gDict>>
  /\ Frame("game")

NextGame ==
  \/ TimerTick
  \/ ResetGame
  \/ \E i \in DOMAIN gRuns : RunLoaded(i)
  \/ \E i \in DOMAIN gRuns : RunResolved(i)
  \/ \E i \in DOMAIN gRuns : RunFailed(i)
  \/ HourPasses
  \/ Submit

SpecGame == InitGame /\ [][NextGame]_vars

(***************************************************************************)
(* Properties of the game state                                            *)
(***************************************************************************)

\* the game can take no further guess
GameOver(state) ==
  state.gameStatus \in {"won", "lost"} \/ Len(state.guesses) >= MAX_GUESSES

\* a sequence begins with another
StartsWith(long, short) ==
  /\ Len(short) <= Len(long)
  /\ \A k \in 1..Len(short) : long[k] = short[k]

\* C24: every game state records at most 6 guesses and one feedback row for
\* each guess, and a submitGuess made when the game is won or lost or when 6
\* guesses are recorded is rejected with an error and changes neither the
\* guesses nor the feedback nor the status
C24_SixGuessesThenRejected ==
  /\ [](/\ Len(gState.guesses) <= MAX_GUESSES
        /\ Len(gState.feedback) = Len(gState.guesses))
  /\ [][(Submit /\ GameOver(gState))
          => /\ gLast'.answer = "rejected"
             /\ gLast'.error # ""
             /\ gState'.guesses = gState.guesses
             /\ gState'.feedback = gState.feedback
             /\ gState'.gameStatus = gState.gameStatus]_vars

\* a game lost with its sixth guess, and a further guess rejected
C24_Witness ==
  /\ gState.gameStatus = "lost"
  /\ Len(gState.guesses) = MAX_GUESSES
  /\ Len(gState.feedback) = MAX_GUESSES
  /\ gLast = [answer |-> "rejected", error |-> "Game is already finished"]

\* C30: while the hour bucket stays the same, the guesses of the game of that
\* bucket stay in the game state and in the saved progress, whatever
\* initializeGame runs resolve meanwhile
C30_AcceptedGuessStays ==
  [][(gHour' = gHour /\ gState.hourId = HourIds[gHour])
       => /\ StartsWith(gState'.guesses, gState.guesses)
          /\ (gSaved.exists /\ gSaved.hourId = HourIds[gHour])
               => /\ gSaved'.exists
                  /\ gSaved'.hourId = HourIds[gHour]
                  /\ StartsWith(gSaved'.guesses, gSaved.guesses)]_vars


(***************************************************************************)
(* Properties of the lifecycle                                             *)
(***************************************************************************)
\* the finished lifecycle calls of all clients
FinishedCalls == UNION {{client[c].log[i] : i \in DOMAIN client[c].log} : c \in Clients}

\* the word a stored payload stands for, as a caller sees it
Decoded(rec) == decryptWord(rec.doc.data.word, HourIds[rec.hourIdx])

\* C1: all lifecycle calls for one hour bucket that return a word return the
\* same word, whichever client made them and in whatever order they ran.
C1_AllClientsSameWord ==
  \A r1 \in FinishedCalls : \A r2 \in FinishedCalls :
    (r1.status = "ok" /\ r2.status = "ok" /\ r1.hourIdx = r2.hourIdx)
      => r1.word = r2.word

\* two clients raced for an empty bucket with key # 0: one created the
\* record and returned, the other was rejected, re-read and returned
C1_Witness ==
  \E c1 \in Clients : \E c2 \in Clients \ {c1} :
    \E i \in DOMAIN client[c1].log : \E j \in DOMAIN client[c2].log :
      /\ client[c1].log[i].hourIdx = 2
      /\ client[c2].log[j].hourIdx = 2
      /\ client[c1].log[i].status = "ok"
      /\ client[c1].log[i].create = "created"
      /\ client[c2].log[j].status = "ok"
      /\ client[c2].log[j].create = "conflict"

C4_FailedCreateReadsAgain ==
  \A r \in FinishedCalls :
    (r.create \notin {"none", "created", "conflict"})
      => /\ r.calls = <<"get", "create", "get">>
         /\ (r.doc.exists /\ Decoded(r).ok) => r.status = "ok"
         /\ (r.status = "error" /\ r.from = "reread" /\ ~r.doc.exists)
              => r.err = "failed-to-get-or-create"

\* C5: a call that read a record which is not well-formed fails; it never
\* returns a word taken from that record.
C5_MalformedRecordFails ==
  \A r \in FinishedCalls :
    (r.doc.exists /\ ~validateWordDocument(r.doc.data)) => r.status = "error"

\* the finished calls that read a record whose payload does not decode
UndecodableReads == {r \in FinishedCalls : r.doc.exists /\ ~Decoded(r).ok}

CreateNotSucceeded == {r \in FinishedCalls : r.create \notin {"none", "created"}}

\* C28: a call whose create did not succeed returns a word only as the
\* upper-cased decoding of a record it read after the create; when that read
\* finds no record the call fails, with no further request to the store.
C28_NeverLocalWord ==
  \A r \in CreateNotSucceeded :
    /\ r.status = "ok"
         => /\ r.from = "reread"
            /\ r.doc.exists
            /\ Decoded(r).ok
            /\ r.word = toUpperCase(Decoded(r).text)
            /\ r.calls = <<"get", "create", "get">>
    /\ (r.from = "reread" /\ ~r.doc.exists)
         => /\ r.status = "error"
            /\ r.word = <<>>
            /\ r.calls = <<"get", "create", "get">>

\* a call lost the race for the bucket, its read after the create missed the
\* winner's record, and it failed
C28_Witness ==
  \E r \in CreateNotSucceeded :
    /\ r.create = "conflict"
    /\ r.from = "reread"
    /\ ~r.doc.exists
    /\ store[r.hourIdx].exists
    /\ r.derived # <<>>
    /\ r.status = "error"

C6_OneInstance ==
  /\ built <= 1
  /\ \A i \in Callers : \A j \in Callers :
       (caller[i].pc = "done" /\ caller[j].pc = "done") => caller[i].ret = caller[j].ret

\* the Dictionary objects that loadDictionary calls have returned
ReturnedDictionaries ==
  (IF dictionaryInstance.loaded THEN {dictionaryInstance.dict} ELSE {})
    \cup {caller[i].mine : i \in {j \in DOMAIN caller : caller[j].pc = "done" /\ caller[j].ret > 0}}

Members(s) == {s[i] : i \in DOMAIN s}

\* C23: in every Dictionary returned by loadDictionary every member of
\* solutions is a member of allowed, and both sets hold only lower-case words.
C23_SolutionsAllowed ==
  \A d \in ReturnedDictionaries :
    /\ Members(d.solutions) \subseteq Members(d.allowed)
    /\ \A w \in Members(d.solutions) \cup Members(d.allowed) : toLowerCase(w) = w

\* two calls overlapped and each returned a Dictionary, the second one built
\* from the word array after the first call had sorted it
C23_Witness ==
  /\ built = 2
  /\ \A i \in Callers : caller[i].pc = "done"
  /\ \E d \in ReturnedDictionaries : \E e \in ReturnedDictionaries :
       d.allowed # e.allowed /\ Len(d.solutions) = SolutionPrefix

(***************************************************************************)
(* Properties of evaluateGuess                                             *)
(***************************************************************************)
Statuses(fb) == [i \in 1..Len(fb) |-> fb[i].status]

Min(a, b) == IF a < b THEN a ELSE b

EvalValid == evPc = "done" /\ Len(evGuess) = 5 /\ Len(evSecret) = 5

\* number of positions of the guess that hold letter c and are marked
\* correct or present
Credited(c) ==
  Cardinality({i \in 1..5 : /\ toLowerCase(evGuess)[i] = c
                            /\ evOut.feedback[i].status \in {"correct", "present"}})

\* C9: for every letter, the positions of the guess holding it that are marked
\* correct or present number min(occurrences in the guess, occurrences in the
\* secret), ignoring case; SPEED against ERASE and ALLEY against LLAMA give
\* the rows of the specification.
C9_DuplicateLetters ==
  EvalValid
    => /\ evOut.ok
       /\ \A c \in 97..122 :
            Credited(c) = Min(CountIn(toLowerCase(evGuess), c),
                              CountIn(toLowerCase(evSecret), c))
       /\ (evGuess = Str(<<"S","P","E","E","D">>) /\ evSecret = Str(<<"E","R","A","S","E">>))
            => Statuses(evOut.feedback)
                 = <<"present", "absent", "present", "present", "absent">>
       /\ (evGuess = Str(<<"A","L","L","E","Y">>) /\ evSecret = Str(<<"L","L","A","M","A">>))
            => Statuses(evOut.feedback)
                 = <<"present", "correct", "present", "absent", "absent">>

\* a guess with a letter twice against a secret holding it once, elsewhere
C9_Witness ==
  /\ EvalValid
  /\ \E c \in 97..122 :
       /\ CountIn(toLowerCase(evGuess), c) = 2
       /\ CountIn(toLowerCase(evSecret), c) = 1
       /\ Credited(c) = 1
       /\ \E i \in 1..5 : toLowerCase(evGuess)[i] = c /\ evOut.feedback[i].status = "absent"

\* C25: for every letter, among the positions of the guess that hold it and
\* are not marked correct, no position marked absent comes before a position
\* marked present; LLAMA against ALLEY gives present, correct, present,
\* absent, absent.
C25_LeftmostPresent ==
  EvalValid
    => /\ \A i \in 1..5 : \A j \in 1..5 :
            (i < j /\ toLowerCase(evGuess)[i] = toLowerCase(evGuess)[j])
              => ~(evOut.feedback[i].status = "absent"
                   /\ evOut.feedback[j].status = "present")
       /\ (evGuess = Str(<<"L","L","A","M","A">>) /\ evSecret = Str(<<"A","L","L","E","Y">>))
            => Statuses(evOut.feedback)
                 = <<"present", "correct", "present", "absent", "absent">>

\* a letter that the guess holds twice outside its place and the secret once:
\* the first of the two is present and the second absent
C25_Witness ==
  /\ EvalValid
  /\ \E i \in 1..5 : \E j \in 1..5 :
       /\ i < j
       /\ toLowerCase(evGuess)[i] = toLowerCase(evGuess)[j]
       /\ evOut.feedback[i].status = "present"
       /\ evOut.feedback[j].status = "absent"
       /\ CountIn(toLowerCase(evSecret), toLowerCase(evGuess)[i]) = 1

\* C10: five feedback entries; no more correct entries than positions where
\* guess and secret agree ignoring case; a guess equal to the secret ignoring
\* case is correct everywhere.
C10_FiveEntries ==
  EvalValid
    => /\ evOut.ok
       /\ Len(evOut.feedback) = 5
       /\ \A i \in 1..5 : evOut.feedback[i].status \in {"correct", "present", "absent"}
       /\ Cardinality({i \in 1..5 : evOut.feedback[i].status = "correct"})
            <= Cardinality({i \in 1..5 : toLowerCase(evGuess)[i] = toLowerCase(evSecret)[i]})
       /\ toLowerCase(evGuess) = toLowerCase(evSecret)
            => \A i \in 1..5 : evOut.feedback[i].status = "correct"

\* a lower-case guess against the same word in upper case
C10_Witness ==
  /\ EvalValid
  /\ evGuess # evSecret
  /\ toLowerCase(evGuess) = toLowerCase(evSecret)
  /\ \A i \in 1..5 : evOut.feedback[i].status = "correct"


(***************************************************************************)
(* Properties of getKeyboardLetterStatus                                   *)
(***************************************************************************)
Rank(s) == IF s = "correct" THEN 3 ELSE IF s = "present" THEN 2
           ELSE IF s = "absent" THEN 1 ELSE 0

\* the ranks a letter has in the entries of the given rows
RanksOf(c, rows) ==
  {0} \cup {Rank(rows[g][i].status) :
              <<g, i>> \in {<<g, i>> \in (DOMAIN rows) \X (1..5) :
                              toLowerCase(<<rows[g][i].letter>>)[1] = c}}

Highest(S) == CHOOSE x \in S : \A y \in S : y <= x

RowOrders(n) == {f \in [1..n -> 1..n] : \A i \in 1..n : \A j \in 1..n : f[i] = f[j] => i = j}

\* the letters of the rows, and one letter that is in no row
KeyboardLetters ==
  {toLowerCase(w)[i] : w \in KeyboardWords, i \in 1..5} \cup {122}

\* C11: the status reported for a letter is the highest it has in any row; the
\* map never ranks a letter lower than the map of the rows before the last one
\* did; every permutation of the rows gives the same map.
C11_HighestStatusWins ==
  /\ \A c \in KeyboardLetters : Rank(kbMap[c]) = Highest(RanksOf(c, kbRows))
  /\ \A c \in 97..122 : c \notin KeyboardLetters => kbMap[c] = "none"
  /\ Len(kbRows) > 0 =>
       \A c \in KeyboardLetters :
         Rank(getKeyboardLetterStatus(SubSeq(kbRows, 1, Len(kbRows) - 1))[c])
           <= Rank(kbMap[c])
  /\ \A f \in RowOrders(Len(kbRows)) :
       getKeyboardLetterStatus([i \in 1..Len(kbRows) |-> kbRows[f[i]]]) = kbMap

\* a letter was correct in an earlier row, the last row marks it absent, and
\* the map still says correct
C11_Witness ==
  /\ Len(kbRows) >= 2
  /\ \E i \in 1..5 :
       /\ kbRows[Len(kbRows)][i].status = "absent"
       /\ kbMap[toLowerCase(<<kbRows[Len(kbRows)][i].letter>>)[1]] = "correct"


(***************************************************************************)
(* Properties of suggestHintWord                                           *)
(***************************************************************************)
HintSolutions ==
  {NewDictionary(1, ALL_WORDS).solutions[k] :
     k \in 1..Len(NewDictionary(1, ALL_WORDS).solutions)}

\* the entries of the feedback rows, as <<row, position>>
HintEntries == {<<g, i>> \in (DOMAIN hFeedback) \X (1..5) : TRUE}

EntryLetter(e) == toLowerCase(<<hFeedback[e[1]][e[2]].letter>>)[1]
EntryStatus(e) == hFeedback[e[1]][e[2]].status

\* an absent entry whose letter is marked correct or present in the same row
ShadowedAbsent(e) ==
  /\ EntryStatus(e) = "absent"
  /\ \E j \in 1..5 : /\ j # e[2]
                     /\ EntryLetter(<<e[1], j>>) = EntryLetter(e)
                     /\ EntryStatus(<<e[1], j>>) # "absent"

\* the word meets what the rows say: fixed letters, present letters, excluded
\* positions, excluded letters
MeetsRows(w) ==
  \A e \in HintEntries :
    /\ EntryStatus(e) = "correct" => w[e[2]] = EntryLetter(e)
    /\ EntryStatus(e) = "present" => (IncludesChar(w, EntryLetter(e))
                                      /\ w[e[2]] # EntryLetter(e))
    /\ ShadowedAbsent(e) => w[e[2]] # EntryLetter(e)
    /\ (EntryStatus(e) = "absent" /\ ~ShadowedAbsent(e))
         => ~IncludesChar(w, EntryLetter(e))

\* C12: the hint is never one of the guesses, compared ignoring case.
C12_HintNotAGuess ==
  (hPc = "done" /\ ~hOut.null)
    => \A k \in 1..Len(hGuesses) : toLowerCase(hGuesses[k]) # toLowerCase(hOut.word)

\* the solution words that meet the rows
Meeting == {w \in HintSolutions : MeetsRows(w)}

Candidates == {w \in Meeting : ~IncludesWord(hGuesses, w)}

BuiltConstraints == HintRows(NoConstraints, hFeedback, 1)

\* C26: a letter is in the must-exclude set only through an absent entry whose
\* row marks that letter absent wherever it holds it; an absent entry whose row
\* marks the letter correct or present elsewhere excludes it from its own
\* position only, so a hint never holds the letter there but may hold it.
C26_AbsentExcludesLocally ==
  /\ \A ch \in BuiltConstraints.mustNotInclude :
       \E e \in HintEntries : /\ EntryLetter(e) = ch
                              /\ EntryStatus(e) = "absent"
                              /\ ~ShadowedAbsent(e)
  /\ \A e \in HintEntries :
       /\ ShadowedAbsent(e) => EntryLetter(e) \in BuiltConstraints.cannotBe[e[2]]
       /\ (EntryStatus(e) = "absent" /\ ~ShadowedAbsent(e))
            => EntryLetter(e) \in BuiltConstraints.mustNotInclude
       /\ (ShadowedAbsent(e) /\ hPc = "done" /\ ~hOut.null)
            => hOut.word[e[2]] # EntryLetter(e)

\* the hint holds a letter that a row marks absent at one position and
\* present at another
C26_Witness ==
  /\ hPc = "done"
  /\ ~hOut.null
  /\ \E e \in HintEntries :
       /\ ShadowedAbsent(e)
       /\ EntryLetter(e) \notin BuiltConstraints.mustNotInclude
       /\ IncludesChar(hOut.word, EntryLetter(e))



(***************************************************************************)
(* Properties of encryptWord / decryptWord                                 *)
(***************************************************************************)
\* C14: decrypting what encryptWord made of a five-letter word, with the same
\* hour id, succeeds and gives the word in lower case, for every key.
C14_RoundTrip ==
  cPc = "done" => (cOut.ok /\ cOut.text = toLowerCase(cWord))

\* a word in mixed case under an hour id whose key is 0: the cipher shifts by
\* 0 and the decipher by 26, and the payload is the lower-cased word in base64
C14_Witness ==
  /\ cPc = "done"
  /\ cOut.ok
  /\ generateEncryptionKey(cHourId) = 0
  /\ \E i \in 1..5 : cWord[i] = Ord("z")
  /\ \E i \in 1..5 : cWord[i] = Ord("A")
  /\ cOut.payload = btoa(toLowerCase(cWord))
  /\ cOut.text = toLowerCase(cWord)

(***************************************************************************)
(* Properties of the dictionary queries                                    *)
(***************************************************************************)
DeterministicCalls ==
  {queries[k] : k \in {k \in DOMAIN queries :
                         queries[k].fn = "getDeterministicSolutionWord"
                         /\ queries[k].out.ok}}

\* C15: two getDeterministicSolutionWord calls with the same seed return the
\* same word, whatever loadDictionary calls ran before or between them, and
\* every result is the upper-case form of a solution word and is the word at
\* index |hash(seed)| mod size of the solution list.
C15_SameSeedSameWord ==
  /\ \A q1 \in DeterministicCalls : \A q2 \in DeterministicCalls :
       q1.arg = q2.arg => q1.out.word = q2.out.word
  /\ \A q \in DeterministicCalls :
       /\ \E k \in 1..Len(SOLUTION_WORDS) : q.out.word = toUpperCase(SOLUTION_WORDS[k])
       /\ q.out.word =
            toUpperCase(SOLUTION_WORDS[AbsMod(simpleStringHash(q.arg),
                                              Len(SOLUTION_WORDS)) + 1])

\* the same seed, with a negative hash, was asked for under two different
\* Dictionary objects, the second built after the word array had been sorted
C15_Witness ==
  /\ Len(queries) = 2
  /\ queries[1] \in DeterministicCalls
  /\ queries[2] \in DeterministicCalls
  /\ queries[1].arg = queries[2].arg
  /\ simpleStringHash(queries[1].arg) < 0
  /\ queries[1].built = 1
  /\ queries[2].built = 2
  /\ allWords # ALL_WORDS

\* C16: each of the four queries throws exactly when no loadDictionary call
\* has resolved yet at the time of the call.
C16_ThrowsUntilLoaded ==
  \A k \in DOMAIN queries : queries[k].out.ok <=> queries[k].resolved

\* a query threw while the first load was in flight, and a later query of the
\* same function succeeded
C16_Witness ==
  /\ Len(queries) = 2
  /\ queries[1].fn = queries[2].fn
  /\ queries[1].inFlight
  /\ ~queries[1].out.ok
  /\ queries[2].out.ok


\* the solution words for which every row of the state is the evaluation of
\* its guess, and which are not, as the dictionary writes them, among the
\* guesses
HiddenSecrets ==
  {w \in HintSolutions :
     /\ \A g \in DOMAIN hGuesses : hFeedback[g] = evaluateGuess(hGuesses[g], w).feedback
     /\ ~IncludesWord(hGuesses, w)}

\* C29: when the rows are the evaluations of the guesses against one solution
\* word that is not among the guesses, that word passes the filter built from
\* the rows, so suggestHintWord does not return null.
C29_SecretIsCandidate ==
  \A w \in HiddenSecrets :
    /\ HintFilter(w, BuiltConstraints, hGuesses)
    /\ hPc = "done" => ~hOut.null

\* two guesses were made, one of them with a repeated letter that the secret
\* holds once, and a hint was given
C29_Witness ==
  /\ hPc = "done"
  /\ Len(hGuesses) = 2
  /\ HiddenSecrets # {}
  /\ \E e \in HintEntries : ShadowedAbsent(e)
  /\ ~hOut.null
  /\ hOut.word \in HiddenSecrets

(***************************************************************************)
(* Properties of withRetry                                                 *)
(***************************************************************************)
\* attempt k of the trace ended with the retried function throwing
Threw(k) == rTrace[k].act # "return"

\* C17: an attempt in which the store fails with permission-denied,
\* unauthenticated or already-exists is the last attempt, and when the retried
\* function throws that failure the operation fails with the same kind.
C17_NoRetryOnDenied ==
  \A k \in DOMAIN rTrace :
    (rTrace[k].kind = "fail" /\ rTrace[k].failure.firestore
       /\ rTrace[k].failure.code \in {"permission-denied", "unauthenticated",
                                      "already-exists"})
      => /\ k = Len(rTrace)
         /\ rPc = "done"
         /\ Threw(k) => rResult = [kind |-> "thrown", code |-> rTrace[k].failure.code]

\* after transient failures an attempt was denied and the operation failed
\* with permission-denied
C17_Witness ==
  /\ rPc = "done"
  /\ Len(rTrace) = 3
  /\ rTrace[1].failure.code = "unavailable"
  /\ rTrace[3].failure.code = "permission-denied"
  /\ rResult = [kind |-> "thrown", code |-> "permission-denied"]

\* C18: an attempt is followed by another attempt only when it failed with a
\* transient kind.
C18_OnlyTransientRetried ==
  \A k \in DOMAIN rTrace :
    (k < Len(rTrace) \/ rPc \in {"wait", "call"})
      => (rTrace[k].kind = "fail" /\ rTrace[k].failure.firestore
          /\ rTrace[k].failure.code \in TransientCodes)

\* the attempts of the operation are bounded and its outcome is that of the
\* last attempt
C19_Bounded ==
  /\ Len(rTrace) <= MaxRetries + 1
  /\ rAttempt <= MaxRetries
  /\ \A k \in DOMAIN rTrace : rTrace[k].attempt = k - 1
  /\ \A k \in DOMAIN rTrace : k < Len(rTrace) => rTrace[k].kind = "fail"
  /\ rPc = "done" <=> rResult.kind # "none"
  /\ (rPc = "done" /\ rTrace[Len(rTrace)].kind # "fail") => rResult.kind = "returned"
  /\ (Len(rTrace) = MaxRetries + 1
        /\ \A k \in DOMAIN rTrace : rTrace[k].kind = "fail"
                                    /\ rTrace[k].failure.code \in TransientCodes)
       => rResult = [kind |-> "thrown", code |-> "max-retries-exceeded"]

\* C19: withRetry ends: it returns at the first attempt that succeeds, makes at
\* most maxRetries + 1 = 4 attempts, and after four transient failures fails
\* with max-retries-exceeded.
C19_Terminates == []C19_Bounded /\ <>[](rPc = "done")

\* four transient failures in a row, then max-retries-exceeded
C19_Witness ==
  /\ rPc = "done"
  /\ Len(rTrace) = 4
  /\ \A k \in 1..4 : rTrace[k].failure.code \in TransientCodes
  /\ rResult = [kind |-> "thrown", code |-> "max-retries-exceeded"]


(***************************************************************************)
(* Properties of preGenerateWords                                          *)
(***************************************************************************)
RECURSIVE OkHours(_, _)
\* the hour ids of the first n logged calls that succeeded, in log order
OkHours(log, n) ==
  IF n = 0 THEN <<>>
  ELSE IF log[n].status = "ok"
    THEN Append(OkHours(log, n - 1), HourIds[log[n].hourIdx])
  ELSE OkHours(log, n - 1)

\* C20: preGenerateWords(n) runs the lifecycle for each of the n consecutive
\* hours whether or not earlier ones failed, always returns, and returns the
\* ids of the hours whose call succeeded, in chronological order.
C20_BatchBestEffort ==
  \A c \in Clients :
    client[c].mode = "batch" =>
      LET cr == client[c]
      IN /\ Len(cr.log) = cr.batchI
         /\ cr.batchI <= cr.batchN
         /\ \A i \in DOMAIN cr.log : cr.log[i].hourIdx = cr.batchStart + i - 1
         /\ cr.pc = "done" <=> cr.batchI = cr.batchN
         /\ cr.generatedHours = OkHours(cr.log, Len(cr.log))

\* a batch of two hours returned the second only: the call for the first failed
C20_Witness ==
  \E c \in Clients :
    /\ client[c].mode = "batch"
    /\ client[c].pc = "done"
    /\ client[c].batchN = 2
    /\ client[c].log[1].status = "error"
    /\ client[c].log[2].status = "ok"
    /\ client[c].generatedHours = <<HourIds[2]>>


(***************************************************************************)
(* Properties of timeUtils.ts                                              *)
(***************************************************************************)
\* the Date r milliseconds after date, for 0 <= r <= MsPerDay
Later(date, r) ==
  [day |-> date.day + (date.ms + r) \div MsPerDay, ms |-> (date.ms + r) % MsPerDay]

\* C21: millisecondsToNextHour(t) is an integer r with 1 <= r <= 3600000 and
\* t + r is the first millisecond of the UTC hour after that of t; r is
\* 3600000 on an hour boundary and 1 one millisecond before one.
C21_DelayToNextHour ==
  tPc = "done" =>
    LET r == tOut.toNext
    IN /\ r \in 1..MsPerHour
       /\ Later(tA, r).ms % MsPerHour = 0
       /\ tA.ms % MsPerHour = 0 => r = MsPerHour
       /\ tA.ms % MsPerHour = MsPerHour - 1 => r = 1
       /\ r = MsPerHour - (tA.ms % MsPerHour)

\* the delay was computed at the last millisecond of a year and at the first
\* millisecond of a day
C21_Witness ==
  /\ tPc = "done"
  /\ tA = DateOf(2024, 12, 31, 23, MsPerHour - 1)
  /\ tOut.toNext = 1
  /\ tB = DateOf(2025, 1, 1, 0, 0)
  /\ millisecondsToNextHour(tB) = MsPerHour


\* two Dates in the same hour of the same UTC day
SameHour(a, b) == a.day = b.day /\ a.ms \div MsPerHour = b.ms \div MsPerHour

\* what C22 says of the keys of an earlier and a later Date
KeysInOrder ==
  /\ Len(tOut.idA) = 10
  /\ Len(tOut.idB) = 10
  /\ \A i \in 1..Len(tOut.idA) : IsDigitCode(tOut.idA[i])
  /\ tOut.idA = tOut.idB \/ StrLess(tOut.idA, tOut.idB)
  /\ tOut.idA = tOut.idB <=> SameHour(tA, tB)
  /\ tOut.same <=> SameHour(tA, tB)

====
